---- MODULE Spec2Model ----
(***************************************************************************)
(* Model of the nofx trading core: the AutoTrader cycle (trader package),  *)
(* its position tracking, the loss circuit breaker (exponential backoff),  *)
(* the automatic trailing-stop / partial-take-profit controller and the    *)
(* dispatcher of AI decisions.                                             *)
(*                                                                         *)
(* Numbers.  Prices are whole numbers; every position is entered at a      *)
(* price of EntryPrices, so that the leveraged PnL percentage              *)
(*   ((mark - entry) / entry) * leverage * 100                             *)
(* is a whole number and is computed exactly.  Time is counted in whole    *)
(* minutes.  Quantities are whole lots.                                    *)
(***************************************************************************)
EXTENDS Integers, Sequences, FiniteSets, TLC

----------------------------------------------------------------------------
(* Bounds of the model *)

\* the clock does not advance beyond MaxNow minutes
MaxNow == 1440
\* the proposal source returns at most MaxBatch decisions per cycle
MaxBatch == 1
\* the venue refuses (insufficient margin) an order that would bring a
\* position above MaxQty lots, or the account above MaxOpenKeys positions
MaxQty == 3
MaxOpenKeys == 1
\* the backoff computation is explored for loss counts 1..MaxLossCount
MaxLossCount == 4
\* the armed trader is explored from loss counts 1..MaxArmed
MaxArmed == 2
\* the position of the worked take-profit cases holds TargetQty lots
TargetQty == 4
\* sortDecisionsByPriority is explored on batches of at most MaxSort decisions
MaxSort == 3
\* the validated dispatch is explored on batches of at most MaxDecide decisions
MaxDecide == 2
\* the manager's cycle is explored on batches of at most MaxManage decisions
MaxManage == 2

----------------------------------------------------------------------------
(* Configuration (AutoTraderConfig) *)

EnableTrailingStop == TRUE
EnablePartialTakeProfit == TRUE
EnableExponentialBackoff == TRUE
\* TrailingStopActivation * 100 and TrailingStopDistance * 100 (0.05, 0.03)
TrailingStopActivationPct == 5
TrailingStopDistancePct == 3
BackoffBaseMinutes == 45
\* BackoffMultiplier 2.67, in hundredths
BackoffMultiplierX100 == 267
BackoffMaxMinutes == 360
BackoffResetHours == 24
\* the leverage ceilings of the two asset classes
BTCETHLeverage == 5
AltcoinLeverage == 3

\* the breaker's configuration as NewAutoTrader completes an empty one
DefaultConfig ==
  [BackoffBaseMinutes |-> BackoffBaseMinutes,
   BackoffMultiplierX100 |-> BackoffMultiplierX100,
   BackoffMaxMinutes |-> BackoffMaxMinutes,
   BackoffResetHours |-> BackoffResetHours]
\* a configuration whose pauses are longer than its reset window
LongPauseConfig ==
  [BackoffBaseMinutes |-> 900,
   BackoffMultiplierX100 |-> BackoffMultiplierX100,
   BackoffMaxMinutes |-> 1440,
   BackoffResetHours |-> 6]
Configs == {DefaultConfig, LongPauseConfig}

----------------------------------------------------------------------------
(* The domain *)

Symbols == {"BTCUSDT"}
\* posKey = symbol + "_" + side
Keys == Symbols \X {"long", "short"}
SymbolOf(k) == k[1]
SideOf(k) == k[2]
\* the order in which the venue lists positions
KeyOrder == << <<"BTCUSDT", "long">>, <<"BTCUSDT", "short">> >>

Prices == {94, 100, 106, 112}
EntryPrices == {100}
Equities == {95, 100}
\* the time steps between two wake-ups of the loop, in minutes
TimeSteps == {720}

\* time.Time{}: the zero time, before every instant of the run
ZeroTime == -1

NoPosition == [open |-> FALSE, entryPrice |-> 0, quantity |-> 0, leverage |-> 0]

\* a missing entry of positionPnLTracking (tracked = FALSE), else *PnLTracking
NoTracking ==
  [tracked |-> FALSE, MaxProfitPct |-> 0, MaxLossPct |-> 0,
   TakeProfitPrice |-> 0, StopLossPrice |-> 0, EntryPrice |-> 0,
   PartialTP50Executed |-> FALSE, PartialTP100Executed |-> FALSE,
   TrailingStopActivated |-> FALSE]

----------------------------------------------------------------------------
VARIABLES
  \* the venue and the market (external)
  price,                 \* market price of each symbol
  positions,             \* live positions at the venue, by key
  equity,                \* totalWalletBalance + totalUnrealizedProfit
  now,                   \* time.Now(), minutes
  \* AutoTrader
  config,                \* the breaker's part of AutoTraderConfig
  positionFirstSeenTime, \* keys of the map (the timestamps are not read)
  positionPnLTracking,
  stopLossCount,
  lastStopLossTime,
  backoffUntil,
  lastTotalEquity,
  \* position of the running cycle
  pc,
  \* what the running cycle has done so far
  calls,                 \* venue order calls issued, in order
  aiCalled,              \* decision.GetFullDecision was called
  begun,                 \* what the cycle saw when it began
  probe,                 \* the last batch handled: what came in, what came out
  \* the loop of Run
  isRunning,             \* the stop flag
  loop                   \* position of Run

venueVars == <<price, positions, equity, now>>
traderVars == <<positionFirstSeenTime, positionPnLTracking, stopLossCount,
                lastStopLossTime, backoffUntil, lastTotalEquity>>
cycleVars == <<pc, calls, aiCalled, begun, probe>>
vars == <<venueVars, config, traderVars, cycleVars, isRunning, loop>>

\* begun: the breaker was active when the cycle began; the tracking entries
\* whose key had left the venue when the cycle began; the breaker fields
\* before the cycle, and the counter as the detection pass found it; how the
\* first buildTradingContext of the cycle ended
NotBegun == [blocked |-> FALSE, closed |-> [k \in Keys |-> NoTracking],
             build |-> "none", rebuild |-> "none",
             ctx |-> [k \in Keys |-> NoPosition],
             stopLossCount |-> 0, countAtPass |-> 0, backoffUntil |-> ZeroTime,
             lastStopLossTime |-> ZeroTime, lastTotalEquity |-> 0]

\* probe: no batch was handled in the cycle
NoProbe == [fn |-> "none", in |-> << >>, out |-> << >>]

LiveKeys(pos) == {k \in Keys : pos[k].open}

----------------------------------------------------------------------------
(* NewAutoTrader *)

InitTrader ==
  /\ positionFirstSeenTime = {}
  /\ positionPnLTracking = [k \in Keys |-> NoTracking]
  /\ stopLossCount = 0
  /\ lastStopLossTime = ZeroTime
  /\ backoffUntil = ZeroTime
  /\ lastTotalEquity = 0

InitCycle ==
  /\ pc = "idle"
  /\ calls = <<>>
  /\ aiCalled = FALSE
  /\ begun = NotBegun
  /\ probe = NoProbe
  \* Run has been called and is at a call of runCycle
  /\ isRunning = TRUE
  /\ loop = "cycle"

\* the venue when the trader is constructed: no position, or one position
\* that was opened before
InitialPositions ==
  {[k \in Keys |-> NoPosition]}
  \cup {[k \in Keys |->
          IF k = h
          THEN [open |-> TRUE, entryPrice |-> e, quantity |-> 2, leverage |-> l]
          ELSE NoPosition] : h \in Keys, e \in EntryPrices, l \in {1}}

InitVenue ==
  /\ price \in [Symbols -> EntryPrices]
  /\ positions \in InitialPositions
  /\ equity \in Equities
  /\ now = 0

Init == InitVenue /\ InitTrader /\ InitCycle /\ config = DefaultConfig

----------------------------------------------------------------------------
(* buildTradingContext: the refresh of the tracking maps *)

\* pnlPct of a position
UnrealizedPnLPct(side, entryPrice, markPrice, leverage) ==
  IF side = "long"
  THEN ((markPrice - entryPrice) * leverage * 100) \div entryPrice
  ELSE ((entryPrice - markPrice) * leverage * 100) \div entryPrice

PnLOf(k, pos, px) ==
  UnrealizedPnLPct(SideOf(k), pos[k].entryPrice, px[SymbolOf(k)], pos[k].leverage)

\* the entry of a live position: created at its first observation with both
\* extremes at the current pnlPct, then the extremes are extended
TrackPosition(trk, pnlPct) ==
  LET t0 == IF trk.tracked THEN trk
            ELSE [NoTracking EXCEPT !.tracked = TRUE,
                                    !.MaxProfitPct = pnlPct, !.MaxLossPct = pnlPct]
  IN [t0 EXCEPT !.MaxProfitPct = IF pnlPct > @ THEN pnlPct ELSE @,
                !.MaxLossPct = IF pnlPct < @ THEN pnlPct ELSE @]

\* positionPnLTracking after the position loop and the cleanup loop: the
\* cleanup ranges over the keys of positionFirstSeenTime
RefreshTracking(trk, firstSeen, pos, px) ==
  [k \in Keys |->
     IF pos[k].open THEN TrackPosition(trk[k], PnLOf(k, pos, px))
     ELSE IF k \in firstSeen THEN NoTracking
     ELSE trk[k]]

\* positionFirstSeenTime after the position loop and the cleanup loop
RefreshFirstSeen(firstSeen, pos) ==
  {k \in firstSeen \cup LiveKeys(pos) : pos[k].open}

\* GetBalance fails, GetPositions fails, GetMergedCoinPool fails (after the
\* maps were refreshed), or the context is built
BuildOutcomes == {"balance_err", "positions_err", "pool_err", "ok"}
Refreshed(outcome) == outcome \in {"pool_err", "ok"}

\* variant: a cycle that goes on whatever buildTradingContext returned
contextBuiltOrNot(outcome) == TRUE

\* runCycle step 5: buildTradingContext returned a context and no error
contextBuilt(outcome) == outcome = "ok"

----------------------------------------------------------------------------
(* checkStopLossTriggered *)

\* variant: the pass without its first condition
equityDecreasedAlways(last, currentEquity) == TRUE

equityDecreased(last, currentEquity) == last > 0 /\ currentEquity < last

\* currentPrice <= stopLossPrice*1.05 (long), >= stopLossPrice*0.95 (short)
priceNearStopLoss(side, currentPrice, stopLossPrice) ==
  IF side = "long" THEN currentPrice * 100 <= stopLossPrice * 105
  ELSE currentPrice * 100 >= stopLossPrice * 95

isProfitable(side, currentPrice, entryPrice) ==
  IF side = "long" THEN currentPrice > entryPrice ELSE currentPrice < entryPrice

isStopLoss(eqDecreased, side, currentPrice, trk) ==
  /\ eqDecreased
  /\ IF trk.StopLossPrice > 0
     THEN priceNearStopLoss(side, currentPrice, trk.StopLossPrice)
     ELSE IF trk.EntryPrice > 0
          THEN ~isProfitable(side, currentPrice, trk.EntryPrice)
          ELSE TRUE

\* backoffMinutes after the loop for i := 1; i < count; i++, as the fraction
\* num/den.  The multiplier is >= 1, so a value that has passed the maximum
\* stays above it and is capped: the loop stops multiplying there.
RECURSIVE backoffLoop(_, _, _, _)
backoffLoop(cfg, num, den, i) ==
  IF i <= 0 \/ num > cfg.BackoffMaxMinutes * den THEN [num |-> num, den |-> den]
  ELSE backoffLoop(cfg, num * cfg.BackoffMultiplierX100, den * 100, i - 1)

\* backoffMinutes after the cap, as a fraction
backoffMinutes(cfg, count) ==
  LET b == backoffLoop(cfg, cfg.BackoffBaseMinutes, 1, count - 1)
  IN IF b.num > cfg.BackoffMaxMinutes * b.den
     THEN [num |-> cfg.BackoffMaxMinutes, den |-> 1]
     ELSE b

\* time.Duration(backoffMinutes) * time.Minute: the conversion of a float64
\* to a Duration drops the fraction, so the pause is a whole number of minutes
backoffDuration(cfg, count) ==
  LET b == backoffMinutes(cfg, count) IN b.num \div b.den

\* the keys of the map that are not in ctx.Positions
VanishedKeys(trk, live) == {k \in Keys : trk[k].tracked /\ k \notin live}

\* variant: a pass that returns without recording the equity
checkStopLossKeepingEquity(cfg, trk, live, currentEquity, px, mkt, count, lastTime, until, last, t) ==
  [stopLossCount |-> count, lastStopLossTime |-> lastTime,
   backoffUntil |-> until, lastTotalEquity |-> last]

\* the breaker fields after the pass; mkt: the keys whose market.Get succeeds
checkStopLossTriggered(cfg, trk, live, currentEquity, px, mkt, count, lastTime, until, last, t) ==
  IF ~EnableExponentialBackoff
  THEN [stopLossCount |-> count, lastStopLossTime |-> lastTime,
        backoffUntil |-> until, lastTotalEquity |-> last]
  ELSE
    LET losses == {k \in VanishedKeys(trk, live) \cap mkt :
                     isStopLoss(equityDecreased(last, currentEquity), SideOf(k),
                                px[SymbolOf(k)], trk[k])}
        n == count + Cardinality(losses)
    IN IF losses = {}
       THEN [stopLossCount |-> count, lastStopLossTime |-> lastTime,
             backoffUntil |-> until, lastTotalEquity |-> currentEquity]
       ELSE [stopLossCount |-> n, lastStopLossTime |-> t,
             backoffUntil |-> t + backoffDuration(cfg, n),
             lastTotalEquity |-> currentEquity]

\* runCycle steps 5 and 6: the pass runs on the map as buildTradingContext
\* has just left it
DetectionPass(cfg, trk, firstSeen, pos, currentEquity, px, mkt, count, lastTime, until, last, t) ==
  checkStopLossTriggered(cfg, RefreshTracking(trk, firstSeen, pos, px), LiveKeys(pos),
                         currentEquity, px, mkt, count, lastTime, until, last, t)

----------------------------------------------------------------------------
(* runCycle, steps 1 to 6 *)

\* variant: a cycle that does not look at the breaker
BreakerNeverBlocks(t, until) == FALSE

\* step 1: the breaker blocks the cycle
BreakerBlocks(t, until) == EnableExponentialBackoff /\ t < until

\* step 3: the counter after the reset check
ResetStopLossCount(cfg, count, lastTime, t) ==
  IF /\ EnableExponentialBackoff
     /\ lastTime # ZeroTime
     /\ t - lastTime >= cfg.BackoffResetHours * 60
     /\ count > 0
  THEN 0 ELSE count

CycleBegin ==
  /\ pc = "idle"
  /\ \E outcome \in BuildOutcomes,
        mkt \in {Keys \ f : f \in SUBSET VanishedKeys(positionPnLTracking, LiveKeys(positions))} :
       LET count1 == ResetStopLossCount(config, stopLossCount, lastStopLossTime, now)
           br == DetectionPass(config, positionPnLTracking, positionFirstSeenTime, positions,
                               equity, price, mkt, count1, lastStopLossTime,
                               backoffUntil, lastTotalEquity, now)
       IN /\ begun' = [blocked |-> (EnableExponentialBackoff /\ now < backoffUntil),
                       closed |-> [k \in Keys |->
                                    IF positions[k].open THEN NoTracking
                                    ELSE positionPnLTracking[k]],
                       build |-> IF BreakerBlocks(now, backoffUntil) THEN "none"
                                 ELSE outcome,
                       rebuild |-> "none",
                       ctx |-> IF ~BreakerBlocks(now, backoffUntil) /\ contextBuilt(outcome)
                               THEN positions
                               ELSE [k \in Keys |-> NoPosition],
                       stopLossCount |-> stopLossCount,
                       countAtPass |-> count1,
                       backoffUntil |-> backoffUntil,
                       lastStopLossTime |-> lastStopLossTime,
                       lastTotalEquity |-> lastTotalEquity]
          /\ IF BreakerBlocks(now, backoffUntil)
             THEN /\ pc' = "done"
                  /\ UNCHANGED traderVars
             ELSE /\ positionFirstSeenTime' =
                       IF Refreshed(outcome)
                       THEN RefreshFirstSeen(positionFirstSeenTime, positions)
                       ELSE positionFirstSeenTime
                  /\ positionPnLTracking' =
                       IF Refreshed(outcome)
                       THEN RefreshTracking(positionPnLTracking, positionFirstSeenTime,
                                            positions, price)
                       ELSE positionPnLTracking
                  /\ IF contextBuilt(outcome)
                     THEN /\ stopLossCount' = br.stopLossCount
                          /\ lastStopLossTime' = br.lastStopLossTime
                          /\ backoffUntil' = br.backoffUntil
                          /\ lastTotalEquity' = br.lastTotalEquity
                          /\ pc' = "controller"
                     ELSE /\ stopLossCount' = count1
                          /\ UNCHANGED <<lastStopLossTime, backoffUntil, lastTotalEquity>>
                          /\ pc' = "done"
  /\ calls' = <<>>
  /\ aiCalled' = FALSE
  /\ UNCHANGED <<venueVars, config, isRunning, loop, probe>>

----------------------------------------------------------------------------
(* The venue (Trader interface) *)

\* an order call of the cycle: op is Open (OpenLong, OpenShort), Close
\* (CloseLong, CloseShort), SetStopLoss or SetTakeProfit; quantity 0 of a Close
\* is "all"; by names the caller; live: the key had a position at the venue
\* when the call was made
Call(op, k, quantity, by, ok, pos) ==
  [op |-> op, key |-> k, quantity |-> quantity, by |-> by, ok |-> ok,
   live |-> pos[k].open]

\* CloseLong / CloseShort carried out: quantity 0, or all that is left, closes
\* the position
VenueClose(pos, k, quantity) ==
  IF quantity = 0 \/ quantity >= pos[k].quantity
  THEN [pos EXCEPT ![k] = NoPosition]
  ELSE [pos EXCEPT ![k].quantity = @ - quantity]

\* the venue can carry out a close-all of a live position
CanCloseAll(pos, k) == pos[k].open
\* a partial close needs at least one lot
CanClosePart(pos, k, quantity) == pos[k].open /\ quantity >= 1

\* OpenLong / OpenShort carried out at the market price; an order for a key
\* that is already open adds to the position
VenueOpen(pos, k, quantity, px, leverage) ==
  IF pos[k].open
  THEN [pos EXCEPT ![k].quantity = @ + quantity]
  ELSE [pos EXCEPT ![k] = [open |-> TRUE, entryPrice |-> px[SymbolOf(k)],
                           quantity |-> quantity, leverage |-> leverage]]

CanOpen(pos, k, quantity) ==
  /\ quantity >= 1
  /\ pos[k].quantity + quantity <= MaxQty
  /\ Cardinality(LiveKeys(pos) \cup {k}) <= MaxOpenKeys

----------------------------------------------------------------------------
(* checkTrailingStopAndPartialTP *)

\* the tracking entry after the one-shot activation check
ActivateTrailingStop(trk, pnlPct) ==
  IF ~trk.TrailingStopActivated /\ pnlPct >= TrailingStopActivationPct
  THEN [trk EXCEPT !.TrailingStopActivated = TRUE]
  ELSE trk

\* variant: the trigger before the one-shot flag, which asked for the profit to
\* be above the activation threshold at the time of the drawdown
TriggeredWhileAboveActivation(trk, pnlPct) ==
  /\ pnlPct >= TrailingStopActivationPct
  /\ trk.MaxProfitPct - pnlPct >= TrailingStopDistancePct

\* drawdownFromPeak >= TrailingStopDistance, once activated
TrailingStopTriggered(trk, pnlPct) ==
  /\ trk.TrailingStopActivated
  /\ trk.MaxProfitPct - pnlPct >= TrailingStopDistancePct

\* variant: the first target without the factor 0.5 on the price move
target50AtTakeProfitX2(side, trk) == 2 * trk.TakeProfitPrice

\* twice target50Price, and target100Price
target50PriceX2(side, trk) ==
  IF side = "long"
  THEN 2 * trk.EntryPrice + (trk.TakeProfitPrice - trk.EntryPrice)
  ELSE 2 * trk.EntryPrice - (trk.EntryPrice - trk.TakeProfitPrice)
target100Price(side, trk) == trk.TakeProfitPrice

reachedTarget50(side, markPrice, trk) ==
  IF side = "long" THEN 2 * markPrice >= target50PriceX2(side, trk)
  ELSE 2 * markPrice <= target50PriceX2(side, trk)
reachedTarget100(side, markPrice, trk) ==
  IF side = "long" THEN markPrice >= target100Price(side, trk)
  ELSE markPrice <= target100Price(side, trk)

\* executePartialTakeProfit: closeQuantity = pos.Quantity * closeRatio with
\* closeRatio 0.5, in whole lots (the venue's lot size)
closeQuantity(quantity) == quantity \div 2

\* the venue's answers to the controller's calls for one position
ControlOutcomes == [ts : BOOLEAN, tp50 : BOOLEAN, tp100 : BOOLEAN]

\* variant: the partial take-profit is skipped only after a trailing-stop
\* close that succeeded
ControlPositionFallingThrough(k, trk, cpos, pos, px, o) ==
  LET side == SideOf(k)
      pnlPct == UnrealizedPnLPct(side, cpos.entryPrice, px[SymbolOf(k)], cpos.leverage)
      markPrice == px[SymbolOf(k)]
      t1 == IF EnableTrailingStop THEN ActivateTrailingStop(trk, pnlPct) ELSE trk
      triggered == EnableTrailingStop /\ TrailingStopTriggered(t1, pnlPct)
      tsCalls == IF triggered
                 THEN << Call("Close", k, 0, "trailing_stop", FALSE, pos) >>
                 ELSE << >>
  IN
  IF triggered /\ o.ts /\ CanCloseAll(pos, k)
  THEN [trk |-> t1,
        pos |-> VenueClose(pos, k, 0),
        calls |-> << Call("Close", k, 0, "trailing_stop", TRUE, pos) >>,
        executed |-> TRUE]
  ELSE IF EnablePartialTakeProfit /\ t1.TakeProfitPrice > 0
  THEN LET q == closeQuantity(cpos.quantity)
           r50 == ~t1.PartialTP50Executed /\ reachedTarget50(side, markPrice, t1)
           ok50 == r50 /\ o.tp50 /\ CanClosePart(pos, k, q)
           pos1 == IF ok50 THEN VenueClose(pos, k, q) ELSE pos
           t2 == IF ok50 THEN [t1 EXCEPT !.PartialTP50Executed = TRUE] ELSE t1
           r100 == ~t2.PartialTP100Executed /\ reachedTarget100(side, markPrice, t2)
           ok100 == r100 /\ o.tp100 /\ CanClosePart(pos1, k, q)
           pos2 == IF ok100 THEN VenueClose(pos1, k, q) ELSE pos1
           t3 == IF ok100 THEN [t2 EXCEPT !.PartialTP100Executed = TRUE] ELSE t2
       IN [trk |-> t3,
           pos |-> pos2,
           calls |-> tsCalls
                     \o (IF r50 THEN << Call("Close", k, q, "partial_tp50", ok50, pos) >>
                         ELSE << >>)
                     \o (IF r100 THEN << Call("Close", k, q, "partial_tp100", ok100, pos1) >>
                         ELSE << >>),
           executed |-> ok50 \/ ok100]
  ELSE [trk |-> t1, pos |-> pos, calls |-> tsCalls, executed |-> FALSE]

\* one iteration of the loop over ctx.Positions, for the position of key k:
\* cpos is the position as ctx holds it (the snapshot), pos the venue.
\* The result: the tracking entry, the venue, the calls made, hasExecuted.
ControlPosition(k, trk, cpos, pos, px, o) ==
  LET side == SideOf(k)
      pnlPct == UnrealizedPnLPct(side, cpos.entryPrice, px[SymbolOf(k)], cpos.leverage)
      markPrice == px[SymbolOf(k)]
      t1 == IF EnableTrailingStop THEN ActivateTrailingStop(trk, pnlPct) ELSE trk
  IN
  IF EnableTrailingStop /\ TrailingStopTriggered(t1, pnlPct)
  THEN LET ok == o.ts /\ CanCloseAll(pos, k)
       IN [trk |-> t1,
           pos |-> IF ok THEN VenueClose(pos, k, 0) ELSE pos,
           calls |-> << Call("Close", k, 0, "trailing_stop", ok, pos) >>,
           executed |-> ok]
  ELSE IF EnablePartialTakeProfit /\ t1.TakeProfitPrice > 0
  THEN LET q == closeQuantity(cpos.quantity)
           r50 == ~t1.PartialTP50Executed /\ reachedTarget50(side, markPrice, t1)
           ok50 == r50 /\ o.tp50 /\ CanClosePart(pos, k, q)
           pos1 == IF ok50 THEN VenueClose(pos, k, q) ELSE pos
           t2 == IF ok50 THEN [t1 EXCEPT !.PartialTP50Executed = TRUE] ELSE t1
           r100 == ~t2.PartialTP100Executed /\ reachedTarget100(side, markPrice, t2)
           ok100 == r100 /\ o.tp100 /\ CanClosePart(pos1, k, q)
           pos2 == IF ok100 THEN VenueClose(pos1, k, q) ELSE pos1
           t3 == IF ok100 THEN [t2 EXCEPT !.PartialTP100Executed = TRUE] ELSE t2
       IN [trk |-> t3,
           pos |-> pos2,
           calls |-> (IF r50 THEN << Call("Close", k, q, "partial_tp50", ok50, pos) >>
                      ELSE << >>)
                     \o (IF r100 THEN << Call("Close", k, q, "partial_tp100", ok100, pos1) >>
                         ELSE << >>),
           executed |-> ok50 \/ ok100]
  ELSE [trk |-> t1, pos |-> pos, calls |-> << >>, executed |-> FALSE]

\* the loop over ctx.Positions: the positions live in the snapshot that have a
\* tracking entry, in the venue's order
RECURSIVE ControlLoop(_, _, _, _, _, _)
ControlLoop(i, trk, cposs, pos, px, outs) ==
  IF i > Len(KeyOrder)
  THEN [trk |-> trk, pos |-> pos, calls |-> << >>, executed |-> FALSE]
  ELSE LET k == KeyOrder[i] IN
       IF cposs[k].open /\ trk[k].tracked
       THEN LET r == ControlPosition(k, trk[k], cposs[k], pos, px, outs[k])
                rest == ControlLoop(i + 1, [trk EXCEPT ![k] = r.trk], cposs, r.pos, px, outs)
            IN [trk |-> rest.trk, pos |-> rest.pos, calls |-> r.calls \o rest.calls,
                executed |-> r.executed \/ rest.executed]
       ELSE ControlLoop(i + 1, trk, cposs, pos, px, outs)

\* variant: the proposals are asked for with the context of step 5
contextOfStep5(ctx, hasExecutedTP, outcome, pos) == ctx

\* runCycle step 8: ctx.Positions when the proposals are asked for; after a
\* controller action that succeeded it is what buildTradingContext reads from
\* the venue again (a failed rebuild ends the cycle)
contextForProposals(ctx, hasExecutedTP, outcome, pos) ==
  IF hasExecutedTP /\ outcome = "ok" THEN pos ELSE ctx

\* runCycle steps 7 and 8: the controller, then, if it executed anything, the
\* context is built again before the proposals are asked for
Controller ==
  /\ pc = "controller"
  /\ \E outs \in [LiveKeys(positions) -> ControlOutcomes] :
       LET r == ControlLoop(1, positionPnLTracking, positions, positions, price, outs)
       IN /\ positions' = r.pos
          /\ calls' = calls \o r.calls
          /\ IF r.executed
             THEN \E outcome \in BuildOutcomes :
                    /\ positionPnLTracking' =
                         IF Refreshed(outcome)
                         THEN RefreshTracking(r.trk, positionFirstSeenTime, r.pos, price)
                         ELSE r.trk
                    /\ positionFirstSeenTime' =
                         IF Refreshed(outcome)
                         THEN RefreshFirstSeen(positionFirstSeenTime, r.pos)
                         ELSE positionFirstSeenTime
                    /\ pc' = IF outcome = "ok" THEN "solicit" ELSE "done"
                    /\ begun' = [begun EXCEPT
                                   !.rebuild = outcome,
                                   !.ctx = contextForProposals(@, TRUE, outcome, r.pos)]
             ELSE /\ positionPnLTracking' = r.trk
                  /\ UNCHANGED positionFirstSeenTime
                  /\ pc' = "solicit"
                  /\ begun' = [begun EXCEPT
                                 !.ctx = contextForProposals(@, FALSE, "ok", r.pos)]
  /\ UNCHANGED <<price, equity, now, config, isRunning, loop, stopLossCount, lastStopLossTime,
                 backoffUntil, lastTotalEquity, aiCalled, probe>>

----------------------------------------------------------------------------
(* The proposal source and sortDecisionsByPriority *)

Decision(action, symbol, stopLoss, takeProfit, size, leverage) ==
  [Action |-> action, Symbol |-> symbol, StopLoss |-> stopLoss,
   TakeProfit |-> takeProfit, PositionSizeUSD |-> size, Leverage |-> leverage]

\* the decisions the proposal source may return: each passes validateDecision
\* (risk 6 and reward 12 for the long, risk 3 and reward 6 for the short)
OpenDecisions ==
  {Decision("open_long", s, 94, 112, 200, 1) : s \in Symbols}
  \cup {Decision("open_short", s, 103, 94, 200, 1) : s \in Symbols}
OtherDecisions ==
  {Decision(a, s, 0, 0, 0, 0) :
     a \in {"close_long", "close_short", "hold"}, s \in Symbols}

\* an opening is proposed at a market price of EntryPrices only
Proposable(px) ==
  {d \in OpenDecisions : px[d.Symbol] \in EntryPrices} \cup OtherDecisions

Batches(px) == UNION {[1..n -> Proposable(px)] : n \in 0..MaxBatch}

getActionPriority(action) ==
  CASE action \in {"close_long", "close_short"} -> 1
    [] action \in {"open_long", "open_short"} -> 2
    [] action \in {"hold", "wait"} -> 3
    [] OTHER -> 999

\* for j := i + 1; j < len(sorted); j++ { if priority(i) > priority(j) swap }
RECURSIVE sortInner(_, _, _)
sortInner(sorted, i, j) ==
  IF j > Len(sorted) THEN sorted
  ELSE sortInner(IF getActionPriority(sorted[i].Action) > getActionPriority(sorted[j].Action)
                 THEN [sorted EXCEPT ![i] = sorted[j], ![j] = sorted[i]]
                 ELSE sorted,
                 i, j + 1)

\* for i := 0; i < len(sorted)-1; i++
RECURSIVE sortOuter(_, _)
sortOuter(sorted, i) ==
  IF i >= Len(sorted) THEN sorted
  ELSE sortOuter(sortInner(sorted, i, i + 1), i + 1)

sortDecisionsByPriority(decisions) ==
  IF Len(decisions) <= 1 THEN decisions ELSE sortOuter(decisions, 1)

----------------------------------------------------------------------------
(* executeDecisionWithRecord *)

\* the answers of the venue and of the market reader to one execution
DispatchOutcomes ==
  [getPositions : BOOLEAN, market : BOOLEAN, order : BOOLEAN]

\* the answers that the execution of d asks for (the others are fixed)
OutcomesFor(d) ==
  {o \in DispatchOutcomes :
     /\ d.Action \notin {"open_long", "open_short"} => o.getPositions
     /\ d.Action \in {"hold", "wait"} => o.market
     /\ (d.Action \in {"hold", "wait"} \/ ~o.market) => o.order}

\* the answers to the executions of a sorted batch
BatchOutcomes(sorted) ==
  {outs \in [1..Len(sorted) -> DispatchOutcomes] :
     \A i \in 1..Len(sorted) : outs[i] \in OutcomesFor(sorted[i])}

\* variant: an entry written without the price of the execution
OpenedWithoutEntryPrice(d, currentPrice) ==
  [NoTracking EXCEPT !.tracked = TRUE,
                     !.TakeProfitPrice = d.TakeProfit,
                     !.StopLossPrice = d.StopLoss]

\* the tracking entry written after a successful opening
OpenedTracking(d, currentPrice) ==
  [NoTracking EXCEPT !.tracked = TRUE,
                     !.TakeProfitPrice = d.TakeProfit,
                     !.StopLossPrice = d.StopLoss,
                     !.EntryPrice = currentPrice]

\* the anti-stacking check: GetPositions answered and lists the key
AlreadyOpen(pos, k, o) == o.getPositions /\ pos[k].open

Unchanged(trk, firstSeen, pos, err) ==
  [err |-> err, trk |-> trk, firstSeen |-> firstSeen, pos |-> pos, calls |-> << >>]

\* executeOpenLongWithRecord, executeOpenShortWithRecord
executeOpen(d, side, trk, firstSeen, pos, px, o) ==
  LET k == <<d.Symbol, side>>
      currentPrice == px[d.Symbol]
      quantity == d.PositionSizeUSD \div currentPrice
      ok == o.order /\ CanOpen(pos, k, quantity)
      pos1 == VenueOpen(pos, k, quantity, px, d.Leverage)
  IN IF AlreadyOpen(pos, k, o) THEN Unchanged(trk, firstSeen, pos, TRUE)
     ELSE IF ~o.market THEN Unchanged(trk, firstSeen, pos, TRUE)
     ELSE IF ~ok
     THEN [Unchanged(trk, firstSeen, pos, TRUE) EXCEPT
             !.calls = << Call("Open", k, quantity, "dispatch", FALSE, pos) >>]
     ELSE [err |-> FALSE,
           trk |-> [trk EXCEPT ![k] = OpenedTracking(d, currentPrice)],
           firstSeen |-> firstSeen \cup {k},
           pos |-> pos1,
           calls |-> << Call("Open", k, quantity, "dispatch", TRUE, pos),
                        Call("SetStopLoss", k, quantity, "dispatch", TRUE, pos1) >>
                     \o (IF ~EnablePartialTakeProfit
                         THEN << Call("SetTakeProfit", k, quantity, "dispatch", TRUE, pos1) >>
                         ELSE << >>)]

\* executeCloseLongWithRecord, executeCloseShortWithRecord
executeClose(d, side, trk, firstSeen, pos, px, o) ==
  LET k == <<d.Symbol, side>>
      ok == o.order /\ CanCloseAll(pos, k)
  IN IF ~o.market THEN Unchanged(trk, firstSeen, pos, TRUE)
     ELSE [err |-> ~ok, trk |-> trk, firstSeen |-> firstSeen,
           pos |-> IF ok THEN VenueClose(pos, k, 0) ELSE pos,
           calls |-> << Call("Close", k, 0, "dispatch", ok, pos) >>]

executeDecisionWithRecord(d, trk, firstSeen, pos, px, o) ==
  CASE d.Action = "open_long" -> executeOpen(d, "long", trk, firstSeen, pos, px, o)
    [] d.Action = "open_short" -> executeOpen(d, "short", trk, firstSeen, pos, px, o)
    [] d.Action = "close_long" -> executeClose(d, "long", trk, firstSeen, pos, px, o)
    [] d.Action = "close_short" -> executeClose(d, "short", trk, firstSeen, pos, px, o)
    [] d.Action \in {"hold", "wait"} -> Unchanged(trk, firstSeen, pos, FALSE)
    [] OTHER -> Unchanged(trk, firstSeen, pos, TRUE)

\* variant: a loop that gives up at the first failed decision
RECURSIVE executeLoopUntilError(_, _, _, _, _, _, _)
executeLoopUntilError(i, sorted, trk, firstSeen, pos, px, outs) ==
  IF i > Len(sorted)
  THEN [trk |-> trk, firstSeen |-> firstSeen, pos |-> pos, calls |-> << >>,
        results |-> << >>]
  ELSE LET r == executeDecisionWithRecord(sorted[i], trk, firstSeen, pos, px, outs[i])
           rest == IF r.err
                   THEN [trk |-> r.trk, firstSeen |-> r.firstSeen, pos |-> r.pos,
                         calls |-> << >>, results |-> << >>]
                   ELSE executeLoopUntilError(i + 1, sorted, r.trk, r.firstSeen, r.pos,
                                              px, outs)
       IN [rest EXCEPT !.calls = r.calls \o @,
                       !.results = << [d |-> sorted[i], err |-> r.err] >> \o @]

\* runCycle step 13: the loop over the sorted decisions; a failed decision
\* is logged and the loop goes on.  results: record.Decisions, the decisions
\* executed with their outcome
RECURSIVE executeLoop(_, _, _, _, _, _, _)
executeLoop(i, sorted, trk, firstSeen, pos, px, outs) ==
  IF i > Len(sorted)
  THEN [trk |-> trk, firstSeen |-> firstSeen, pos |-> pos, calls |-> << >>,
        results |-> << >>]
  ELSE LET r == executeDecisionWithRecord(sorted[i], trk, firstSeen, pos, px, outs[i])
           rest == executeLoop(i + 1, sorted, r.trk, r.firstSeen, r.pos, px, outs)
       IN [rest EXCEPT !.calls = r.calls \o @,
                       !.results = << [d |-> sorted[i], err |-> r.err] >> \o @]

\* runCycle steps 9 to 13: GetFullDecision fails and the cycle ends, or it
\* returns a batch, which is sorted and executed
GetFullDecision ==
  /\ pc = "solicit"
  /\ aiCalled' = TRUE
  /\ pc' = "done"
  /\ \/ UNCHANGED <<positions, positionPnLTracking, positionFirstSeenTime, calls>>
     \/ \E sorted \in {sortDecisionsByPriority(batch) : batch \in Batches(price)} :
          \E outs \in BatchOutcomes(sorted) :
            LET r == executeLoop(1, sorted, positionPnLTracking,
                                 positionFirstSeenTime, positions, price, outs)
            IN /\ positionPnLTracking' = r.trk
               /\ positionFirstSeenTime' = r.firstSeen
               /\ positions' = r.pos
               /\ calls' = calls \o r.calls
  /\ UNCHANGED <<price, equity, now, config, isRunning, loop, stopLossCount, lastStopLossTime,
                 backoffUntil, lastTotalEquity, begun, probe>>

\* runCycle step 14 and the return to the loop of Run
Finish ==
  /\ pc = "done"
  /\ pc' = "idle"
  /\ calls' = << >>
  /\ aiCalled' = FALSE
  /\ begun' = NotBegun
  /\ probe' = NoProbe
  /\ UNCHANGED <<venueVars, config, isRunning, loop, traderVars>>

----------------------------------------------------------------------------
(* The venue and the market between two cycles *)

MarketMove ==
  /\ pc = "idle"
  /\ price' \in [Symbols -> Prices]
  /\ equity' \in Equities
  /\ UNCHANGED <<positions, now, config, isRunning, loop, traderVars, cycleVars>>

\* a position leaves the venue: its stop order fills, it is liquidated, or it
\* is closed by hand
PositionClosed ==
  /\ pc = "idle"
  /\ \E k \in LiveKeys(positions) : positions' = [positions EXCEPT ![k] = NoPosition]
  /\ UNCHANGED <<price, equity, now, config, isRunning, loop, traderVars, cycleVars>>

\* the ticker of Run: time passes until the next cycle
Tick ==
  /\ pc = "idle"
  /\ \E d \in TimeSteps : now + d <= MaxNow /\ now' = now + d
  /\ UNCHANGED <<price, positions, equity, config, isRunning, loop, traderVars, cycleVars>>

Next ==
  \/ MarketMove
  \/ PositionClosed
  \/ Tick
  \/ CycleBegin
  \/ Controller
  \/ GetFullDecision
  \/ Finish

Spec == Init /\ [][Next]_vars

----------------------------------------------------------------------------
(* The detection pass on its own: checkStopLossTriggered applied to the
   tracking entries of keys that have left the venue *)

\* the entries the pass may find for key k: written by an opening, or created
\* by buildTradingContext for a position it had not opened
VanishedEntries(k) ==
  {OpenedTracking(d, e) : d \in {x \in OpenDecisions : x.Action = "open_" \o SideOf(k)},
                          e \in EntryPrices}
  \cup {TrackPosition(NoTracking, 0)}

DetectInputs == [Keys -> {NoTracking} \cup UNION {VanishedEntries(k) : k \in Keys}]

DetectLoss ==
  /\ pc = "idle"
  /\ \E trk \in DetectInputs, mkt \in SUBSET Keys :
       LET r == checkStopLossTriggered(config, trk, {}, equity, price, mkt, stopLossCount,
                                       lastStopLossTime, backoffUntil, lastTotalEquity, now)
       IN /\ \A k \in Keys : trk[k].tracked => trk[k] \in VanishedEntries(k)
          /\ r.stopLossCount <= MaxLossCount
          /\ stopLossCount' = r.stopLossCount
          /\ lastStopLossTime' = r.lastStopLossTime
          /\ backoffUntil' = r.backoffUntil
          /\ lastTotalEquity' = r.lastTotalEquity
          /\ begun' = [NotBegun EXCEPT !.closed = trk,
                                       !.stopLossCount = stopLossCount,
                                       !.countAtPass = stopLossCount,
                                       !.backoffUntil = backoffUntil,
                                       !.lastStopLossTime = lastStopLossTime,
                                       !.lastTotalEquity = lastTotalEquity]
  /\ pc' = "done"
  /\ UNCHANGED <<venueVars, config, isRunning, loop, positionFirstSeenTime, positionPnLTracking,
                 calls, aiCalled, probe>>

InitDetect ==
  /\ price \in [Symbols -> Prices]
  /\ positions = [k \in Keys |-> NoPosition]
  /\ equity \in Equities
  /\ now = 0
  /\ InitTrader
  /\ InitCycle
  /\ config \in Configs

NextDetect ==
  \/ MarketMove
  \/ Tick
  \/ DetectLoss
  \/ Finish

SpecDetect == InitDetect /\ [][NextDetect]_vars

----------------------------------------------------------------------------
(* The trader with its breaker armed: the fields as lines 605 to 619 leave
   them at the n-th confirmed loss, at time 0, the trader holding at most one
   position, which it opened *)

ArmedTracking(pos) ==
  [k \in Keys |->
     IF pos[k].open
     THEN TrackPosition(
            OpenedTracking(CHOOSE d \in OpenDecisions : d.Action = "open_" \o SideOf(k),
                           pos[k].entryPrice), 0)
     ELSE NoTracking]

InitArmed ==
  /\ InitVenue
  /\ InitCycle
  /\ config \in Configs
  /\ positionFirstSeenTime = LiveKeys(positions)
  /\ positionPnLTracking = ArmedTracking(positions)
  /\ lastTotalEquity = equity
  /\ \E n \in 1..MaxArmed :
       /\ stopLossCount = n
       /\ lastStopLossTime = now
       /\ backoffUntil = now + backoffDuration(config, n)

SpecArmed == InitArmed /\ [][Next]_vars

----------------------------------------------------------------------------
(* The cycle on the worked cases of the partial take-profit: the trader holds
   one position of TargetQty lots, which it opened; the market moves between
   the entry price, the two targets and the price just before the first
   target.  At these prices the comparisons of the pnl percentage with the
   trailing-stop thresholds are the same on whole percents as on the exact
   value. *)

TargetCases ==
  {[side |-> "long", entry |-> 50000, takeProfit |-> 55000, stopLoss |-> 47500],
   [side |-> "short", entry |-> 3000, takeProfit |-> 2700, stopLoss |-> 3150]}

TargetPosition(c) ==
  [k \in Keys |->
     IF k = <<"BTCUSDT", c.side>>
     THEN [open |-> TRUE, entryPrice |-> c.entry, quantity |-> TargetQty, leverage |-> 1]
     ELSE NoPosition]

TargetTracking(c) ==
  [k \in Keys |->
     IF k = <<"BTCUSDT", c.side>>
     THEN TrackPosition(
            OpenedTracking(Decision("open_" \o c.side, "BTCUSDT", c.stopLoss,
                                    c.takeProfit, TargetQty * c.entry, 1),
                           c.entry), 0)
     ELSE NoTracking]

InitTargets ==
  /\ \E c \in TargetCases :
       /\ price = [s \in Symbols |-> c.entry]
       /\ positions = TargetPosition(c)
       /\ positionPnLTracking = TargetTracking(c)
  /\ positionFirstSeenTime = LiveKeys(positions)
  /\ equity \in Equities
  /\ now = 0
  /\ stopLossCount = 0
  /\ lastStopLossTime = ZeroTime
  /\ backoffUntil = ZeroTime
  /\ lastTotalEquity = 0
  /\ InitCycle
  /\ config = DefaultConfig

TargetMove ==
  /\ pc = "idle"
  /\ price' \in [Symbols -> {50000, 52499, 52500, 55000, 3000, 2851, 2850, 2700}]
  /\ UNCHANGED <<positions, equity, now, config, isRunning, loop, traderVars, cycleVars>>

NextTargets ==
  \/ TargetMove
  \/ CycleBegin
  \/ Controller
  \/ GetFullDecision
  \/ Finish

SpecTargets == InitTargets /\ [][NextTargets]_vars

----------------------------------------------------------------------------
(* sortDecisionsByPriority on its own: applied to every batch of at most
   MaxSort decisions over the actions that validateDecision lets through *)

SortDecisions ==
  {Decision(a, s, 0, 0, 0, 0) :
     a \in {"open_long", "close_short", "close_long", "decrease_long",
            "increase_long", "update_loss_profit", "hold"},
     s \in {"BTCUSDT", "ETHUSDT", "SOLUSDT"}}
SortInputs == UNION {[1..n -> SortDecisions] : n \in 0..MaxSort}

\* runCycle step 12
SortBatch ==
  /\ pc = "idle"
  /\ \E batch \in SortInputs :
       probe' = [fn |-> "sort", in |-> batch, out |-> sortDecisionsByPriority(batch)]
  /\ pc' = "done"
  /\ UNCHANGED <<venueVars, config, isRunning, loop, traderVars, calls, aiCalled, begun>>

NextSort ==
  \/ SortBatch
  \/ Finish

SpecSort == Init /\ [][NextSort]_vars

----------------------------------------------------------------------------
(* validateDecision (decision package).  Prices and sizes are whole numbers,
   so the reward/risk ratio rewardPercent / riskPercent, whose two terms are
   divided by the same entry price, is compared with 2.0 exactly. *)

\* a decision as the proposal source returns it, with the fields that
\* validateDecision reads
Intent(action, symbol, leverage, size, entry, stopLoss, takeProfit, invalidation, reasoning) ==
  [Action |-> action, Symbol |-> symbol, Leverage |-> leverage,
   PositionSizeUSD |-> size, EntryPrice |-> entry, StopLoss |-> stopLoss,
   TakeProfit |-> takeProfit, InvalidationCondition |-> invalidation,
   Reasoning |-> reasoning]

validActions ==
  {"open_long", "open_short", "close_long", "close_short", "increase_long",
   "increase_short", "decrease_long", "decrease_short", "hold", "wait",
   "update_loss_profit"}

\* strings.TrimSpace(s) == ""
IsBlank(str) == str \in {"", " "}

\* riskRewardRatio < 2.0; the ratio stays 0 when riskPercent is not positive
riskRewardTooLow(risk, reward) == IF risk > 0 THEN reward < 2 * risk ELSE TRUE

\* variant: the gate at a ratio of 1.5
riskRewardBelowThreeHalves(d) ==
  LET long == d.Action \in {"open_long", "increase_long"}
      risk == IF long THEN d.EntryPrice - d.StopLoss ELSE d.StopLoss - d.EntryPrice
      reward == IF long THEN d.TakeProfit - d.EntryPrice ELSE d.EntryPrice - d.TakeProfit
  IN IF risk > 0 THEN 2 * reward < 3 * risk ELSE TRUE

\* the hard constraint on an opening or an increase
riskRewardRejected(d) ==
  LET long == d.Action \in {"open_long", "increase_long"}
      risk == IF long THEN d.EntryPrice - d.StopLoss ELSE d.StopLoss - d.EntryPrice
      reward == IF long THEN d.TakeProfit - d.EntryPrice ELSE d.EntryPrice - d.TakeProfit
  IN riskRewardTooLow(risk, reward)

\* the error of the checks on an opening or an increase, "" when they pass
validateOpening(d, accountEquity, btcEthLeverage, altcoinLeverage) ==
  LET major == d.Symbol \in {"BTCUSDT", "ETHUSDT"}
      maxLeverage == IF major THEN btcEthLeverage ELSE altcoinLeverage
      maxPositionValue == IF major THEN accountEquity * 10 ELSE accountEquity * 5
      long == d.Action \in {"open_long", "increase_long"}
  IN IF d.Leverage <= 0 \/ d.Leverage > maxLeverage THEN "leverage"
     \* PositionSizeUSD > maxPositionValue + maxPositionValue * 0.01
     ELSE IF d.PositionSizeUSD <= 0 THEN "position_size"
     ELSE IF d.PositionSizeUSD * 100 > maxPositionValue * 101 THEN "position_value"
     ELSE IF d.EntryPrice <= 0 THEN "entry_price"
     ELSE IF d.StopLoss <= 0 \/ d.TakeProfit <= 0 THEN "stop_or_target"
     ELSE IF IsBlank(d.InvalidationCondition) THEN "invalidation_condition"
     ELSE IF long /\ d.StopLoss >= d.EntryPrice THEN "stop_side"
     ELSE IF long /\ d.TakeProfit <= d.EntryPrice THEN "target_side"
     ELSE IF ~long /\ d.StopLoss <= d.EntryPrice THEN "stop_side"
     ELSE IF ~long /\ d.TakeProfit >= d.EntryPrice THEN "target_side"
     ELSE IF riskRewardRejected(d) THEN "risk_reward"
     ELSE ""

\* variant: a validator that brings the leverage of the decision down to the
\* ceiling, through the pointer it is given, and checks nothing else
validateClampingLeverage(d, accountEquity, btcEthLeverage, altcoinLeverage) ==
  LET maxLeverage == IF d.Symbol \in {"BTCUSDT", "ETHUSDT"} THEN btcEthLeverage
                     ELSE altcoinLeverage
  IN [err |-> "",
      d |-> IF d.Leverage > maxLeverage THEN [d EXCEPT !.Leverage = maxLeverage] ELSE d]

\* validateDecision: the error ("" for nil) and the decision behind the
\* pointer when the function returns
validateDecision(d, accountEquity, btcEthLeverage, altcoinLeverage) ==
  LET opening == IF d.Action \in {"open_long", "open_short", "increase_long", "increase_short"}
                 THEN validateOpening(d, accountEquity, btcEthLeverage, altcoinLeverage)
                 ELSE ""
      decrease == IF d.Action \in {"decrease_long", "decrease_short"}
                  THEN IF d.PositionSizeUSD <= 0 THEN "position_size"
                       ELSE IF IsBlank(d.Reasoning) THEN "reasoning"
                       ELSE ""
                  ELSE ""
      update == IF d.Action = "update_loss_profit"
                THEN IF d.StopLoss <= 0 \/ d.TakeProfit <= 0 THEN "stop_or_target"
                     ELSE IF IsBlank(d.Reasoning) THEN "reasoning"
                     ELSE ""
                ELSE ""
  IN [err |-> IF d.Action \notin validActions THEN "action"
              ELSE IF opening # "" THEN opening
              ELSE IF decrease # "" THEN decrease
              ELSE update,
      d |-> d]

\* the decisions the validator is explored on
ValidateInputs ==
  {Intent(a, s, l, z, e, sl, tp, inv, r) :
     a \in {"open_long", "open_short", "increase_long", "decrease_long",
            "update_loss_profit", "close_long", "hold", "buy"},
     s \in {"BTCUSDT", "SOLUSDT"}, l \in {0, 3, 5}, z \in {0, 200, 1011},
     e \in {0, 100}, sl \in {0, 98, 102}, tp \in {96, 97, 103, 104},
     inv \in {" ", "4h close below 98"}, r \in {"", "trend"}}

\* the validator run twice on one decision, as a second parse of the same
\* answer would run it
ValidateIntent ==
  /\ pc = "idle"
  /\ \E d \in ValidateInputs :
       LET first == validateDecision(d, equity, BTCETHLeverage, AltcoinLeverage)
           second == validateDecision(first.d, equity, BTCETHLeverage, AltcoinLeverage)
       IN probe' = [fn |-> "validate", in |-> d, out |-> <<first, second>>]
  /\ pc' = "done"
  /\ UNCHANGED <<venueVars, config, isRunning, loop, traderVars, calls, aiCalled, begun>>

InitValidate == Init /\ LiveKeys(positions) = {}

NextValidate ==
  \/ ValidateIntent
  \/ Finish

SpecValidate == InitValidate /\ [][NextValidate]_vars

----------------------------------------------------------------------------
(* runCycle steps 9 to 13 with the validation spelled out: the answer of the
   proposal source is parsed and validated (GetFullDecision,
   parseFullDecisionResponse, validateDecisions), then sorted and executed.
   The decisions carry the entry price the source saw, 100; the market may
   have moved when they are executed. *)

BatchIntents ==
  {Intent("open_long", "BTCUSDT", 1, 200, 100, 94, 112, "4h close below 94", "trend"),
   Intent("open_short", "BTCUSDT", 1, 200, 100, 103, 94, "4h close above 103", "trend"),
   \* reward 4 for risk 3: fails the reward/risk gate
   Intent("open_short", "BTCUSDT", 1, 200, 100, 103, 96, "4h close above 103", "trend"),
   Intent("close_long", "BTCUSDT", 0, 0, 0, 0, 0, "", "exit"),
   Intent("close_short", "BTCUSDT", 0, 0, 0, 0, 0, "", "exit"),
   Intent("hold", "BTCUSDT", 0, 0, 0, 0, 0, "", "wait")}

DecideInputs == UNION {[1..n -> BatchIntents] : n \in 0..MaxDecide}

\* validateDecisions: the error of the first decision that fails, "" if none
RECURSIVE validateDecisions(_, _, _, _, _)
validateDecisions(decisions, i, accountEquity, btcEthLeverage, altcoinLeverage) ==
  IF i > Len(decisions) THEN ""
  ELSE LET r == validateDecision(decisions[i], accountEquity, btcEthLeverage,
                                 altcoinLeverage)
       IN IF r.err # "" THEN r.err
          ELSE validateDecisions(decisions, i + 1, accountEquity, btcEthLeverage,
                                 altcoinLeverage)

\* the answer of the proposal source: the call fails (after its retries), or
\* it returns a text with the rationale and either nothing a decision list
\* can be extracted from, or a list of decisions
DecideAnswers ==
  {[kind |-> "api_err", cot |-> "", decisions |-> << >>],
   [kind |-> "extract_err", cot |-> "rationale", decisions |-> << >>]}
  \cup {[kind |-> "decisions", cot |-> "rationale", decisions |-> ds] :
          ds \in DecideInputs}

\* a *FullDecision; nil: the nil pointer
NilDecision == [nil |-> TRUE, CoTTrace |-> "", Decisions |-> << >>]

\* parseFullDecisionResponse: the decision and the error it returns; errText:
\* the rationale the error message quotes
parseFullDecisionResponse(answer, accountEquity, btcEthLeverage, altcoinLeverage) ==
  LET invalid == validateDecisions(answer.decisions, 1, accountEquity, btcEthLeverage,
                                   altcoinLeverage)
  IN IF answer.kind = "extract_err"
     THEN [decision |-> [nil |-> FALSE, CoTTrace |-> answer.cot, Decisions |-> << >>],
           err |-> "extract", errText |-> answer.cot]
     ELSE [decision |-> [nil |-> FALSE, CoTTrace |-> answer.cot,
                         Decisions |-> answer.decisions],
           err |-> invalid, errText |-> IF invalid # "" THEN answer.cot ELSE ""]

\* decision.GetFullDecision: on an error of the call or of the parser the
\* decision returned is nil and the error wraps the parser's
fullDecision(answer, accountEquity, btcEthLeverage, altcoinLeverage) ==
  LET p == parseFullDecisionResponse(answer, accountEquity, btcEthLeverage,
                                     altcoinLeverage)
  IN IF answer.kind = "api_err"
     THEN [decision |-> NilDecision, err |-> "api", errText |-> ""]
     ELSE IF p.err # "" THEN [p EXCEPT !.decision = NilDecision]
     ELSE p

\* variant: a cycle that goes on after a failed GetFullDecision
solicitNeverFailed(fd) == FALSE

\* runCycle step 9: GetFullDecision returned an error
solicitFailed(fd) == fd.err # ""

\* the record handed to LogDecision: what runCycle copies from a decision
\* that is not nil, the error, and the executed decisions
cycleRecord(fd, results) ==
  [Success |-> fd.err = "",
   ErrorMessage |-> [error |-> fd.err, text |-> fd.errText],
   CoTTrace |-> IF fd.decision.nil THEN "" ELSE fd.decision.CoTTrace,
   DecisionJSON |-> IF fd.decision.nil THEN << >> ELSE fd.decision.Decisions,
   Decisions |-> results]

DecideBatch ==
  /\ pc = "idle"
  /\ aiCalled' = TRUE
  /\ pc' = "done"
  /\ \E answer \in DecideAnswers :
       LET batch == answer.decisions
           fd == fullDecision(answer, equity, BTCETHLeverage, AltcoinLeverage)
           sorted == sortDecisionsByPriority(batch)
       IN IF solicitFailed(fd)
          THEN \* GetFullDecision returns (nil, err): the record is logged and
               \* runCycle returns
               /\ probe' = [fn |-> "decide", in |-> batch,
                            out |-> [err |-> fd.err, sorted |-> << >>, results |-> << >>,
                                     answer |-> answer,
                                     record |-> cycleRecord(fd, << >>)]]
               /\ UNCHANGED <<positions, positionPnLTracking, positionFirstSeenTime,
                              calls>>
          ELSE \E outs \in BatchOutcomes(sorted) :
                 LET r == executeLoop(1, sorted, positionPnLTracking,
                                      positionFirstSeenTime, positions, price, outs)
                 IN /\ probe' = [fn |-> "decide", in |-> batch,
                                 out |-> [err |-> fd.err, sorted |-> sorted,
                                          results |-> r.results,
                                          answer |-> answer,
                                          record |-> cycleRecord(fd, r.results)]]
                    /\ positionPnLTracking' = r.trk
                    /\ positionFirstSeenTime' = r.firstSeen
                    /\ positions' = r.pos
                    /\ calls' = calls \o r.calls
  /\ UNCHANGED <<price, equity, now, config, isRunning, loop, stopLossCount, lastStopLossTime,
                 backoffUntil, lastTotalEquity, begun>>

NextBatch ==
  \/ MarketMove
  \/ PositionClosed
  \/ DecideBatch
  \/ Finish

SpecBatch == Init /\ [][NextBatch]_vars

----------------------------------------------------------------------------
(* PositionManager.  The instance of these specifications is a
   PositionManager: positionPnLTracking and positionFirstSeenTime are its own
   maps, and its tracking entries carry the stage of the staged exit.  The
   decisions of the manager are not passed to validateDecisions. *)

\* a missing entry of the manager's positionPnLTracking (tracked = FALSE),
\* else its *PnLTracking; RemainingQuantity is the fraction <<num, den>>
NoManagedTracking ==
  [tracked |-> FALSE, MaxProfitPct |-> 0, MaxLossPct |-> 0, Stage |-> 0,
   RemainingQuantity |-> <<0, 1>>, PartialTakenAt |-> 0, EntryPrice |-> 0,
   StopLossPrice |-> 0, TakeProfitPrice |-> 0]

\* the trigger prices of the open orders the venue lists for a position: none,
\* or the stop and the target of its opening
OpenOrders(side) ==
  IF side = "long" THEN {<< >>, <<94, 112>>} ELSE {<< >>, <<103, 94>>}

\* buildTradingContext, first sight of a key: a trigger price on the losing
\* side of the mark price is the stop, one on the other side is the target
RECURSIVE seedFromOrders(_, _, _, _, _)
seedFromOrders(trk, side, markPrice, orders, i) ==
  IF i > Len(orders) THEN trk
  ELSE LET stopPrice == orders[i]
           isStop == IF side = "long" THEN stopPrice < markPrice
                     ELSE stopPrice > markPrice
       IN seedFromOrders(IF stopPrice <= 0 THEN trk
                         ELSE IF isStop THEN [trk EXCEPT !.StopLossPrice = stopPrice]
                         ELSE [trk EXCEPT !.TakeProfitPrice = stopPrice],
                         side, markPrice, orders, i + 1)

\* buildTradingContext: the tracking entry of a live position after the
\* position loop
trackManaged(trk, side, entryPrice, markPrice, pnlPct, orders) ==
  LET t0 == IF trk.tracked THEN trk
            ELSE seedFromOrders([NoManagedTracking EXCEPT !.tracked = TRUE,
                                                          !.MaxProfitPct = pnlPct,
                                                          !.MaxLossPct = pnlPct,
                                                          !.Stage = 1,
                                                          !.RemainingQuantity = <<1, 1>>,
                                                          !.EntryPrice = entryPrice],
                                side, markPrice, orders, 1)
  IN [t0 EXCEPT !.MaxProfitPct = IF pnlPct > @ THEN pnlPct ELSE @,
                !.MaxLossPct = IF pnlPct < @ THEN pnlPct ELSE @]

\* the manager's positionPnLTracking after the position loop and the cleanup
\* loop, which ranges over the keys of positionFirstSeenTime
refreshManaged(trk, firstSeen, pos, px, orders) ==
  [k \in Keys |->
     IF pos[k].open
     THEN trackManaged(trk[k], SideOf(k), pos[k].entryPrice, px[SymbolOf(k)],
                       PnLOf(k, pos, px), orders[k])
     ELSE IF k \in firstSeen THEN NoManagedTracking
     ELSE trk[k]]

\* the tracking map of a manager that has seen the positions of pos with the
\* orders of their opening
ManagedTracking(pos, px) ==
  refreshManaged([k \in Keys |-> NoManagedTracking], {}, pos, px,
                 [k \in Keys |-> IF SideOf(k) = "long" THEN <<94, 112>> ELSE <<103, 94>>])

ManageIntents ==
  {Intent("increase_long", "BTCUSDT", 1, 112, 100, 97, 118, "4h close below 97", "add"),
   \* stop above the entry price and target below twice the risk
   Intent("increase_long", "BTCUSDT", 1, 112, 100, 105, 103, "4h close below 105", "add"),
   \* stop below every market price, target below every market price
   Intent("update_loss_profit", "BTCUSDT", 0, 0, 0, 90, 93, "4h close below 90", "trail"),
   Intent("increase_short", "BTCUSDT", 1, 112, 100, 109, 82, "4h close above 109", "add"),
   Intent("update_loss_profit", "BTCUSDT", 0, 0, 0, 93, 118, "4h close below 93", "trail"),
   Intent("update_loss_profit", "BTCUSDT", 0, 0, 0, 113, 82, "4h close above 113", "trail"),
   Intent("decrease_long", "BTCUSDT", 0, 112, 0, 0, 0, "", "reduce"),
   Intent("decrease_short", "BTCUSDT", 0, 112, 0, 0, 0, "", "reduce"),
   \* an amount that converts to quantity 0, which CloseLong reads as "all"
   Intent("decrease_long", "BTCUSDT", 0, 0, 0, 0, 0, "", "reduce"),
   Intent("close_long", "BTCUSDT", 0, 0, 0, 0, 0, "", "exit"),
   Intent("close_short", "BTCUSDT", 0, 0, 0, 0, 0, "", "exit"),
   Intent("hold", "BTCUSDT", 0, 0, 0, 0, 0, "", "wait"),
   Intent("open_long", "BTCUSDT", 1, 112, 100, 97, 118, "4h close below 97", "new")}

\* the answers of the venue to the calls of one execution: GetPositions, the
\* order, CancelAllOrders, GetPositions after the order, SetStopLoss,
\* SetTakeProfit
ManageOutcomes ==
  [getPositions : BOOLEAN, order : BOOLEAN, cancel : BOOLEAN,
   getPositionsAfter : BOOLEAN, setStopLoss : BOOLEAN, setTakeProfit : BOOLEAN]

\* the answers that the execution of d asks for (the others are fixed), each
\* call being made only when the calls before it let the execution go on
ManageOutcomesFor(d) ==
  {o \in ManageOutcomes :
     /\ ~o.getPositions => (o.order /\ o.cancel)
     /\ ~o.order => (o.cancel /\ o.getPositionsAfter)
     /\ ~o.getPositionsAfter => (o.setStopLoss /\ o.setTakeProfit)
     /\ d.Action \in {"hold", "open_long", "open_short", "close_long", "close_short"}
          => o.getPositions
     /\ d.Action \in {"hold", "open_long", "open_short", "update_loss_profit"} => o.order
     /\ d.Action \notin {"increase_long", "increase_short"} => o.getPositionsAfter
     /\ d.Action \notin {"increase_long", "increase_short", "update_loss_profit"}
          => (o.cancel /\ o.setStopLoss /\ o.setTakeProfit)
     /\ (d.Action = "update_loss_profit" /\ ~o.setStopLoss) => o.setTakeProfit}

Managed(err, trk, pos, issued) == [err |-> err, trk |-> trk, pos |-> pos, calls |-> issued]

\* the tracking map after the stop and target of an existing entry were
\* replaced by the decision's
WithStopAndTarget(trk, k, d) ==
  IF trk[k].tracked
  THEN [trk EXCEPT ![k] = [@ EXCEPT !.TakeProfitPrice = d.TakeProfit,
                                     !.StopLossPrice = d.StopLoss]]
  ELSE trk

\* executeIncreaseLong / Short after the order: the old stop and target
\* orders are cancelled, GetPositions is asked for the total quantity and,
\* when it answers, the stop and the target are placed for that quantity
\* (their errors are logged)
replaceOrders(k, pos, o) ==
  << Call("CancelAllOrders", k, 0, "manage", o.cancel, pos) >>
  \o (IF o.getPositionsAfter
      THEN << Call("SetStopLoss", k, pos[k].quantity, "manage", o.setStopLoss, pos),
              Call("SetTakeProfit", k, pos[k].quantity, "manage", o.setTakeProfit, pos) >>
      ELSE << >>)

\* variant: an increase that does not look for the position
executeIncreaseUnchecked(d, side, trk, pos, px, o) ==
  LET k == <<d.Symbol, side>>
      quantity == d.PositionSizeUSD \div px[d.Symbol]
      ok == o.order /\ CanOpen(pos, k, quantity)
  IN IF ~ok
     THEN Managed(TRUE, trk, pos, << Call("Open", k, quantity, "manage", FALSE, pos) >>)
     ELSE Managed(~o.getPositionsAfter, WithStopAndTarget(trk, k, d),
                  VenueOpen(pos, k, quantity, px, d.Leverage),
                  << Call("Open", k, quantity, "manage", TRUE, pos) >>
                  \o replaceOrders(k, VenueOpen(pos, k, quantity, px, d.Leverage), o))

\* executeIncreaseLong, executeIncreaseShort
executeIncrease(d, side, trk, pos, px, o) ==
  LET k == <<d.Symbol, side>>
      quantity == d.PositionSizeUSD \div px[d.Symbol]
      ok == o.order /\ CanOpen(pos, k, quantity)
      pos1 == VenueOpen(pos, k, quantity, px, d.Leverage)
      trk1 == WithStopAndTarget(trk, k, d)
  IN IF ~o.getPositions THEN Managed(TRUE, trk, pos, << >>)
     ELSE IF ~pos[k].open THEN Managed(TRUE, trk, pos, << >>)
     ELSE IF ~ok
     THEN Managed(TRUE, trk, pos, << Call("Open", k, quantity, "manage", FALSE, pos) >>)
     ELSE \* the tracking entry is written before GetPositions is asked again
          Managed(~o.getPositionsAfter, trk1, pos1,
                  << Call("Open", k, quantity, "manage", TRUE, pos) >>
                  \o replaceOrders(k, pos1, o))

\* remainingPct >= 0.4 && remainingPct <= 0.6
aboutHalf(remainingQuantity, currentQuantity) ==
  /\ 10 * remainingQuantity >= 4 * currentQuantity
  /\ 10 * remainingQuantity <= 6 * currentQuantity

\* variant: the stage follows the last decrease, back to 1 when it leaves
\* less or more than about half
decreasedFollowingFraction(trk, currentQuantity, decreaseQuantity, currentPrice) ==
  [trk EXCEPT !.RemainingQuantity = <<currentQuantity - decreaseQuantity, currentQuantity>>,
              !.PartialTakenAt = currentPrice,
              !.Stage = IF aboutHalf(currentQuantity - decreaseQuantity, currentQuantity)
                        THEN 2 ELSE 1]

\* the tracking entry after a decrease that the venue carried out
decreasedTracking(trk, currentQuantity, decreaseQuantity, currentPrice) ==
  [trk EXCEPT !.RemainingQuantity = <<currentQuantity - decreaseQuantity, currentQuantity>>,
              !.PartialTakenAt = currentPrice,
              !.Stage = IF aboutHalf(currentQuantity - decreaseQuantity, currentQuantity)
                           /\ @ = 1
                        THEN 2 ELSE @]

\* the venue carries out CloseLong / CloseShort of the quantity
CanClose(pos, k, quantity) ==
  IF quantity = 0 THEN CanCloseAll(pos, k) ELSE CanClosePart(pos, k, quantity)

\* variant: a decrease that does not compare its quantity with the position's
executeDecreaseUnchecked(d, side, trk, pos, px, o) ==
  LET k == <<d.Symbol, side>>
      currentPrice == px[d.Symbol]
      decreaseQuantity == d.PositionSizeUSD \div currentPrice
      ok == o.order /\ CanClose(pos, k, decreaseQuantity)
      trk1 == IF trk[k].tracked
              THEN [trk EXCEPT ![k] = decreasedTracking(@, pos[k].quantity,
                                                        decreaseQuantity, currentPrice)]
              ELSE trk
  IN IF ~o.getPositions THEN Managed(TRUE, trk, pos, << >>)
     ELSE IF ~pos[k].open THEN Managed(TRUE, trk, pos, << >>)
     ELSE IF ~ok
     THEN Managed(TRUE, trk, pos,
                  << Call("Close", k, decreaseQuantity, "manage", FALSE, pos) >>)
     ELSE Managed(FALSE, trk1, VenueClose(pos, k, decreaseQuantity),
                  << Call("Close", k, decreaseQuantity, "manage", TRUE, pos) >>)

\* executeDecreaseLong, executeDecreaseShort
executeDecrease(d, side, trk, pos, px, o) ==
  LET k == <<d.Symbol, side>>
      currentPrice == px[d.Symbol]
      decreaseQuantity == d.PositionSizeUSD \div currentPrice
      ok == o.order /\ CanClose(pos, k, decreaseQuantity)
      trk1 == IF trk[k].tracked
              THEN [trk EXCEPT ![k] = decreasedTracking(@, pos[k].quantity,
                                                        decreaseQuantity, currentPrice)]
              ELSE trk
  IN IF ~o.getPositions THEN Managed(TRUE, trk, pos, << >>)
     ELSE IF ~pos[k].open THEN Managed(TRUE, trk, pos, << >>)
     ELSE IF decreaseQuantity >= pos[k].quantity THEN Managed(TRUE, trk, pos, << >>)
     ELSE IF ~ok
     THEN Managed(TRUE, trk, pos,
                  << Call("Close", k, decreaseQuantity, "manage", FALSE, pos) >>)
     ELSE Managed(FALSE, trk1, VenueClose(pos, k, decreaseQuantity),
                  << Call("Close", k, decreaseQuantity, "manage", TRUE, pos) >>)

\* PositionManager.executeCloseLong, executeCloseShort
executeCloseAll(d, side, trk, pos, px, o) ==
  LET k == <<d.Symbol, side>>
      ok == o.order /\ CanCloseAll(pos, k)
  IN Managed(~ok, trk, IF ok THEN VenueClose(pos, k, 0) ELSE pos,
             << Call("Close", k, 0, "manage", ok, pos) >>)

\* executeUpdateLossProfit: the position is the first of the symbol in the
\* venue's list
executeUpdateLossProfit(d, trk, pos, px, o) ==
  LET listed == {i \in 1..Len(KeyOrder) :
                   pos[KeyOrder[i]].open /\ SymbolOf(KeyOrder[i]) = d.Symbol}
      k == KeyOrder[CHOOSE i \in listed : \A j \in listed : i <= j]
      currentPrice == px[d.Symbol]
      wrongSide ==
        IF SideOf(k) = "long"
        THEN d.TakeProfit <= d.StopLoss \/ d.StopLoss >= currentPrice
        ELSE d.StopLoss <= d.TakeProfit \/ d.StopLoss <= currentPrice
  IN IF ~o.getPositions THEN Managed(TRUE, trk, pos, << >>)
     ELSE IF listed = {} THEN Managed(TRUE, trk, pos, << >>)
     ELSE IF wrongSide THEN Managed(TRUE, trk, pos, << >>)
     ELSE IF ~o.setStopLoss
     THEN Managed(TRUE, trk, pos,
                  << Call("CancelAllOrders", k, 0, "manage", o.cancel, pos),
                     Call("SetStopLoss", k, pos[k].quantity, "manage", FALSE, pos) >>)
     ELSE IF ~o.setTakeProfit
     THEN Managed(TRUE, trk, pos,
                  << Call("CancelAllOrders", k, 0, "manage", o.cancel, pos),
                     Call("SetStopLoss", k, pos[k].quantity, "manage", TRUE, pos),
                     Call("SetTakeProfit", k, pos[k].quantity, "manage", FALSE, pos) >>)
     ELSE Managed(FALSE, WithStopAndTarget(trk, k, d), pos,
                  << Call("CancelAllOrders", k, 0, "manage", o.cancel, pos),
                     Call("SetStopLoss", k, pos[k].quantity, "manage", TRUE, pos),
                     Call("SetTakeProfit", k, pos[k].quantity, "manage", TRUE, pos) >>)

\* PositionManager.executeDecisionWithRecord
manageDecisionWithRecord(d, trk, pos, px, o) ==
  CASE d.Action = "increase_long" -> executeIncrease(d, "long", trk, pos, px, o)
    [] d.Action = "increase_short" -> executeIncrease(d, "short", trk, pos, px, o)
    [] d.Action = "decrease_long" -> executeDecrease(d, "long", trk, pos, px, o)
    [] d.Action = "decrease_short" -> executeDecrease(d, "short", trk, pos, px, o)
    [] d.Action = "close_long" -> executeCloseAll(d, "long", trk, pos, px, o)
    [] d.Action = "close_short" -> executeCloseAll(d, "short", trk, pos, px, o)
    [] d.Action = "update_loss_profit" -> executeUpdateLossProfit(d, trk, pos, px, o)
    [] d.Action = "hold" -> Managed(FALSE, trk, pos, << >>)
    [] OTHER -> Managed(TRUE, trk, pos, << >>)

\* the body of the execution loop of PositionManager.runCycle, which runs
\* only when the venue lists a position
ManageDecision ==
  /\ pc = "idle"
  /\ LiveKeys(positions) # {}
  /\ pc' = "done"
  /\ aiCalled' = TRUE
  /\ \E d \in ManageIntents :
     \E o \in ManageOutcomesFor(d) :
       LET r == manageDecisionWithRecord(d, positionPnLTracking, positions, price, o)
       IN /\ probe' = [fn |-> "manage",
                       in |-> [d |-> d, trk |-> positionPnLTracking,
                               pos |-> positions],
                       out |-> [err |-> r.err]]
          /\ positionPnLTracking' = r.trk
          /\ positions' = r.pos
          /\ calls' = calls \o r.calls
  /\ UNCHANGED <<price, equity, now, config, isRunning, loop, positionFirstSeenTime, stopLossCount,
                 lastStopLossTime, backoffUntil, lastTotalEquity, begun>>

InitManage ==
  /\ InitVenue
  /\ InitCycle
  /\ config = DefaultConfig
  /\ positionFirstSeenTime = LiveKeys(positions)
  /\ positionPnLTracking = ManagedTracking(positions, price)
  /\ stopLossCount = 0
  /\ lastStopLossTime = ZeroTime
  /\ backoffUntil = ZeroTime
  /\ lastTotalEquity = 0

NextManage ==
  \/ MarketMove
  \/ ManageDecision
  \/ Finish

SpecManage == InitManage /\ [][NextManage]_vars

----------------------------------------------------------------------------
(* PositionManager.runCycle *)

\* the decisions of the answers the cycle is explored with
CycleIntents ==
  {d \in ManageIntents :
     \/ d.Action \in {"close_long", "hold", "open_long"}
     \/ d.Action = "decrease_long" /\ d.PositionSizeUSD > 0
     \/ d.Action = "increase_long" /\ d.StopLoss = 97}

\* the answer of the proposal source: the call fails, no decision list can
\* be extracted from the answer, or a list of decisions
ManageAnswers ==
  {[kind |-> "api_err", decisions |-> << >>],
   [kind |-> "extract_err", decisions |-> << >>]}
  \cup {[kind |-> "decisions", decisions |-> ds] :
          ds \in UNION {[1..n -> CycleIntents] : n \in 0..MaxManage}}
NoAnswer == [kind |-> "none", decisions |-> << >>]

\* the outcome of the calls before the proposal source is asked
ManageBuildOutcomes == {"positions_err", "balance_err", "ok"}

\* variant: a parser that lets every action through
noOpening(decisions) == TRUE

\* parsePositionManagementResponse: no decision of the list opens a position
onlyManagement(decisions) ==
  \A i \in 1..Len(decisions) : decisions[i].Action \notin {"open_long", "open_short"}

\* runCycle step 6: the loop over the decisions in the order of the answer; a
\* failed decision is logged and the loop goes on.  results: the decisions
\* executed, with the tracking map before and after each
RECURSIVE manageLoop(_, _, _, _, _, _)
manageLoop(i, decisions, trk, pos, px, outs) ==
  IF i > Len(decisions)
  THEN [trk |-> trk, pos |-> pos, calls |-> << >>, results |-> << >>]
  ELSE LET r == manageDecisionWithRecord(decisions[i], trk, pos, px, outs[i])
           rest == manageLoop(i + 1, decisions, r.trk, r.pos, px, outs)
       IN [rest EXCEPT !.calls = r.calls \o @,
                       !.results = << [d |-> decisions[i], err |-> r.err,
                                       before |-> [k \in Keys |-> trk[k]],
                                       after |-> [k \in Keys |-> r.trk[k]]] >> \o @]

\* the cycle of the manager.  probe.in: the outcome of the first calls, the
\* venue's positions and the tracking map when the cycle began, the answer;
\* probe.out: the tracking map as buildTradingContext left it, the decisions
\* executed
ManageCycle ==
  /\ pc = "idle"
  /\ pc' = "done"
  /\ \E outcome \in ManageBuildOutcomes, answer \in ManageAnswers,
        orders \in [Keys -> {<< >>, <<94, 112>>, <<103, 94>>}] :
       LET ran == outcome = "ok" /\ LiveKeys(positions) # {}
           trk1 == refreshManaged(positionPnLTracking, positionFirstSeenTime, positions,
                                  price, orders)
           decided == answer.kind = "decisions" /\ onlyManagement(answer.decisions)
       IN /\ \A k \in Keys :
               orders[k] \in IF ran /\ positions[k].open /\ ~positionPnLTracking[k].tracked
                             THEN OpenOrders(SideOf(k)) ELSE {<< >>}
          /\ ~ran => answer.kind = "api_err"
          /\ aiCalled' = ran
          /\ positionFirstSeenTime' =
               IF ran THEN RefreshFirstSeen(positionFirstSeenTime, positions)
               ELSE positionFirstSeenTime
          /\ IF ran /\ decided
             THEN \E outs \in [1..Len(answer.decisions) -> ManageOutcomes] :
                    /\ \A i \in 1..Len(answer.decisions) :
                         outs[i] \in ManageOutcomesFor(answer.decisions[i])
                    /\ LET r == manageLoop(1, answer.decisions, trk1, positions, price,
                                           outs)
                       IN /\ positionPnLTracking' = r.trk
                          /\ positions' = r.pos
                          /\ calls' = calls \o r.calls
                          /\ probe' = [fn |-> "cycle",
                                       in |-> [outcome |-> outcome, pos |-> positions,
                                               trk |-> positionPnLTracking,
                                               answer |-> answer],
                                       out |-> [trk |-> trk1, decided |-> TRUE,
                                                results |-> r.results]]
             ELSE /\ positionPnLTracking' = IF ran THEN trk1 ELSE positionPnLTracking
                  /\ probe' = [fn |-> "cycle",
                               in |-> [outcome |-> outcome, pos |-> positions,
                                       trk |-> positionPnLTracking,
                                       answer |-> IF ran THEN answer ELSE NoAnswer],
                               out |-> [trk |-> IF ran THEN trk1 ELSE positionPnLTracking,
                                        decided |-> FALSE, results |-> << >>]]
                  /\ UNCHANGED <<positions, calls>>
  /\ UNCHANGED <<price, equity, now, config, isRunning, loop, stopLossCount, lastStopLossTime,
                 backoffUntil, lastTotalEquity, begun>>

\* the market between two cycles of the manager
ManagedMove ==
  /\ pc = "idle"
  /\ price' \in [Symbols -> {100, 106}]
  /\ UNCHANGED <<positions, equity, now, config, isRunning, loop, traderVars, cycleVars>>

\* a position is opened at the venue by another instance or by hand, at an
\* entry price of EntryPrices
PositionOpened ==
  /\ pc = "idle"
  /\ \E k \in Keys \ LiveKeys(positions) :
       /\ price[SymbolOf(k)] \in EntryPrices
       /\ CanOpen(positions, k, 2)
       /\ positions' = VenueOpen(positions, k, 2, price, 1)
  /\ UNCHANGED <<price, equity, now, config, isRunning, loop, traderVars, cycleVars>>

\* NewPositionManager: the maps are empty
InitManager ==
  /\ InitVenue
  /\ InitCycle
  /\ config = DefaultConfig
  /\ positionFirstSeenTime = {}
  /\ positionPnLTracking = [k \in Keys |-> NoManagedTracking]
  /\ stopLossCount = 0
  /\ lastStopLossTime = ZeroTime
  /\ backoffUntil = ZeroTime
  /\ lastTotalEquity = 0

NextManager ==
  \/ ManagedMove
  \/ PositionClosed
  \/ PositionOpened
  \/ ManageCycle
  \/ Finish

SpecManager == InitManager /\ [][NextManager]_vars

----------------------------------------------------------------------------
(* One decision through the automatic trader: validateDecision, as
   GetFullDecision applies it to every decision of the answer, then
   executeDecisionWithRecord *)

\* a decision of every action, each with the fields its action needs, and a
\* decision with an action that does not exist
DispatchIntents ==
  {Intent("open_long", "BTCUSDT", 1, 200, 100, 94, 112, "4h close below 94", "trend"),
   Intent("open_short", "BTCUSDT", 1, 200, 100, 103, 94, "4h close above 103", "trend"),
   Intent("close_long", "BTCUSDT", 0, 0, 0, 0, 0, "", "exit"),
   Intent("close_short", "BTCUSDT", 0, 0, 0, 0, 0, "", "exit"),
   Intent("increase_long", "BTCUSDT", 1, 200, 100, 94, 112, "4h close below 94", "add"),
   Intent("increase_short", "BTCUSDT", 1, 200, 100, 103, 94, "4h close above 103", "add"),
   Intent("decrease_long", "BTCUSDT", 0, 112, 0, 0, 0, "", "reduce"),
   Intent("decrease_short", "BTCUSDT", 0, 112, 0, 0, 0, "", "reduce"),
   Intent("update_loss_profit", "BTCUSDT", 0, 0, 0, 97, 118, "", "trail"),
   Intent("hold", "BTCUSDT", 0, 0, 0, 0, 0, "", "wait"),
   Intent("wait", "BTCUSDT", 0, 0, 0, 0, 0, "", "wait"),
   Intent("liquidate", "BTCUSDT", 0, 0, 0, 0, 0, "", "exit")}

\* the cases of the switch of AutoTrader.executeDecisionWithRecord; every
\* other action gets the error of its default case
handledActions ==
  {"open_long", "open_short", "close_long", "close_short", "hold", "wait"}

ValidateAndDispatch ==
  /\ pc = "idle"
  /\ pc' = "done"
  /\ aiCalled' = TRUE
  /\ \E d \in DispatchIntents :
       LET v == validateDecision(d, equity, BTCETHLeverage, AltcoinLeverage)
       IN IF v.err # ""
          THEN /\ probe' = [fn |-> "dispatch", in |-> d,
                            out |-> [invalid |-> v.err, unknown |-> FALSE, err |-> FALSE]]
               /\ UNCHANGED <<positions, positionPnLTracking, positionFirstSeenTime,
                              calls>>
          ELSE \E o \in OutcomesFor(d) :
                 LET r == executeDecisionWithRecord(d, positionPnLTracking,
                                                    positionFirstSeenTime, positions,
                                                    price, o)
                 IN /\ probe' = [fn |-> "dispatch", in |-> d,
                                 out |-> [invalid |-> "",
                                          unknown |-> d.Action \notin handledActions,
                                          err |-> r.err]]
                    /\ positionPnLTracking' = r.trk
                    /\ positionFirstSeenTime' = r.firstSeen
                    /\ positions' = r.pos
                    /\ calls' = calls \o r.calls
  /\ UNCHANGED <<price, equity, now, config, isRunning, loop, stopLossCount, lastStopLossTime,
                 backoffUntil, lastTotalEquity, begun>>

NextDispatch ==
  \/ MarketMove
  \/ ValidateAndDispatch
  \/ Finish

SpecDispatch == Init /\ [][NextDispatch]_vars

----------------------------------------------------------------------------
(* mcp.Client.CallWithMessages: the call of the proposal source with its
   retries.  An error is its message; words: the substrings of the message
   that isRetryableError looks for. *)

maxRetries == 3

\* what one attempt (callOnce, callGemini) returns
CallOutcomes ==
  {[ok |-> TRUE, text |-> "answer", words |-> {}],
   [ok |-> FALSE, text |-> "unexpected EOF", words |-> {"EOF"}],
   [ok |-> FALSE, text |-> "dial tcp: i/o timeout", words |-> {"timeout"}],
   [ok |-> FALSE, text |-> "connect: connection refused", words |-> {"connection refused"}],
   [ok |-> FALSE, text |-> "status 401: invalid api key", words |-> {}]}

\* the client: its provider and its key
Clients == [Provider : {"deepseek", "gemini"}, APIKey : {"", "key"}]

retryableErrors ==
  {"EOF", "timeout", "connection reset", "connection refused", "temporary failure",
   "no such host"}

isRetryableError(err) == err.words \cap retryableErrors # {}

\* the loop of CallWithMessages from attempt on; outs[i]: what the i-th
\* callOnce returns.  attempts: the calls of callOnce made; waits: the
\* seconds slept, in order
RECURSIVE retryLoop(_, _)
retryLoop(attempt, outs) ==
  IF attempt > maxRetries
  THEN [ok |-> FALSE, attempts |-> maxRetries, waits |-> << >>]
  ELSE IF outs[attempt].ok
  THEN [ok |-> TRUE, attempts |-> attempt, waits |-> << >>]
  ELSE IF ~isRetryableError(outs[attempt])
  THEN [ok |-> FALSE, attempts |-> attempt, waits |-> << >>]
  ELSE LET rest == retryLoop(attempt + 1, outs)
       IN [rest EXCEPT !.waits = (IF attempt < maxRetries THEN << 2 * attempt >>
                                  ELSE << >>) \o @]

CallWithMessages(client, outs) ==
  IF client.APIKey = "" THEN [ok |-> FALSE, attempts |-> 0, waits |-> << >>]
  ELSE IF client.Provider = "gemini"
  THEN [ok |-> outs[1].ok, attempts |-> 1, waits |-> << >>]
  ELSE retryLoop(1, outs)

CallProposalSource ==
  /\ pc = "idle"
  /\ pc' = "done"
  /\ \E client \in Clients, outs \in [1..maxRetries -> CallOutcomes] :
       probe' = [fn |-> "call", in |-> [client |-> client, outs |-> outs],
                 out |-> CallWithMessages(client, outs)]
  /\ UNCHANGED <<venueVars, config, isRunning, loop, traderVars, calls, aiCalled, begun>>

NextCall ==
  \/ CallProposalSource
  \/ Finish

SpecCall == Init /\ [][NextCall]_vars

----------------------------------------------------------------------------
(* AutoTrader.Run and Stop (PositionManager.Run and Stop are the same code):
   Run sets the flag, runs a cycle at once, and then reads the flag at the
   top of each iteration before it waits for the ticker; Stop, called by
   another goroutine, clears the flag *)

\* NewAutoTrader: the flag is false, Run has not been called
InitRun ==
  /\ InitVenue
  /\ InitTrader
  /\ config = DefaultConfig
  /\ pc = "idle"
  /\ calls = << >>
  /\ aiCalled = FALSE
  /\ begun = NotBegun
  /\ probe = NoProbe
  /\ isRunning = FALSE
  /\ loop = "new"

\* Run up to its first call of runCycle
Run ==
  /\ loop = "new"
  /\ isRunning' = TRUE
  /\ loop' = "cycle"
  /\ UNCHANGED <<venueVars, config, traderVars, cycleVars>>

\* the steps of the cycle that Run has called
RunCycle ==
  /\ loop = "cycle"
  /\ CycleBegin \/ Controller \/ GetFullDecision

\* runCycle returns to Run
CycleReturns ==
  /\ loop = "cycle"
  /\ pc = "done"
  /\ pc' = "idle"
  /\ calls' = << >>
  /\ aiCalled' = FALSE
  /\ begun' = NotBegun
  /\ probe' = NoProbe
  /\ loop' = "top"
  /\ UNCHANGED <<venueVars, config, traderVars, isRunning>>

\* for at.isRunning: the loop goes on to the select, or Run returns; the
\* flag is written by Stop without synchronisation, so that the read gives
\* the value Stop wrote or the one Run wrote before
LoopTop ==
  /\ loop = "top"
  /\ \E seen \in (IF isRunning THEN {TRUE} ELSE {TRUE, FALSE}) :
       loop' = IF seen THEN "select" ELSE "returned"
  /\ UNCHANGED <<venueVars, config, traderVars, cycleVars, isRunning>>

\* case <-ticker.C: the tick arrives and the next cycle is called
TickArrives ==
  /\ loop = "select"
  /\ \E d \in TimeSteps : now + d <= MaxNow /\ now' = now + d
  /\ loop' = "cycle"
  /\ UNCHANGED <<price, positions, equity, config, traderVars, cycleVars, isRunning>>

\* the market and the venue while Run waits for the tick
WhileWaiting ==
  /\ loop = "select"
  /\ MarketMove \/ PositionClosed

\* Stop, at any moment
Stop ==
  /\ isRunning' = FALSE
  /\ UNCHANGED <<venueVars, config, traderVars, cycleVars, loop>>

NextRun ==
  \/ Run
  \/ RunCycle
  \/ CycleReturns
  \/ LoopTop
  \/ TickArrives
  \/ WhileWaiting
  \/ Stop

SpecRun == InitRun /\ [][NextRun]_vars

----------------------------------------------------------------------------
(* Properties *)

\* the calls that the step adds to the log of the cycle
NewCalls == {calls'[i] : i \in (Len(calls) + 1)..Len(calls')}
IsLive(k) == positions[k].open /\ positionPnLTracking[k].tracked
StaysLive(k) ==
  /\ positions[k].open /\ positions'[k].open
  /\ positionPnLTracking[k].tracked /\ positionPnLTracking'[k].tracked

\* C1: the dispatcher never sends an open order (OpenLong, OpenShort) for a
\* key that has a live position at the venue when the order is sent.
C1_NoOpenOrderForLiveKey ==
  \A i \in 1..Len(calls) :
    (calls[i].op = "Open" /\ calls[i].by = "dispatch") => ~calls[i].live

\* the keys that were tracked, have left the venue, with the equity below the
\* one the previous pass recorded and the price on the losing side of the
\* tracked stop-loss price, 5% tolerance included
ConfirmedLosses ==
  {k \in Keys :
     /\ begun.closed[k].tracked
     /\ begun.lastTotalEquity > 0 /\ equity < begun.lastTotalEquity
     /\ begun.closed[k].StopLossPrice > 0
     /\ IF SideOf(k) = "long"
        THEN price[SymbolOf(k)] * 100 <= begun.closed[k].StopLossPrice * 105
        ELSE price[SymbolOf(k)] * 100 >= begun.closed[k].StopLossPrice * 95}

\* C2: after the detection pass of a cycle in which tracked keys have left
\* the venue with a lower equity and a price on the losing side of their
\* stop, stopLossCount has grown by one for each such key and backoffUntil
\* is after now.
C2_LossDetected ==
  (pc = "controller" /\ ConfirmedLosses # {}) =>
    /\ stopLossCount = begun.countAtPass + Cardinality(ConfirmedLosses)
    /\ backoffUntil > now

\* C3: a detection pass that finds tracked keys gone from the venue while the
\* equity has not decreased since the previous pass leaves stopLossCount and
\* backoffUntil as they were, whatever the price.
C3_NoLossWithoutEquityDecrease ==
  (/\ pc = "done"
   /\ \E k \in Keys : begun.closed[k].tracked
   /\ ~(begun.lastTotalEquity > 0 /\ equity < begun.lastTotalEquity)) =>
    /\ stopLossCount = begun.stopLossCount
    /\ backoffUntil = begun.backoffUntil

\* the pass has run on a long whose stop was 94, at the price 94, with the
\* equity where the previous pass had recorded it
C3_Witness ==
  /\ pc = "done"
  /\ begun.closed[<<"BTCUSDT", "long">>].StopLossPrice = 94
  /\ price["BTCUSDT"] = 94
  /\ begun.lastTotalEquity = 100 /\ equity = 100
  /\ lastTotalEquity = 100

\* C4: a cycle that begins with the breaker enabled and now < backoffUntil
\* ends at once: it makes no proposal-source call and the dispatcher sends
\* no order to the venue.
C4_BlockedCycleDoesNotTrade ==
  begun.blocked =>
    /\ pc = "done"
    /\ ~aiCalled
    /\ \A i \in 1..Len(calls) : calls[i].by # "dispatch"

\* a blocked cycle has ended, with a position at the venue
C4_Witness ==
  /\ begun.blocked /\ pc = "done" /\ now < backoffUntil
  /\ \E k \in Keys : IsLive(k)

\* the controller's conditions on the position of key k, from the tracking
\* entry and the market
PartialTPDue(k) ==
  LET t == positionPnLTracking[k]
      reached50 == IF SideOf(k) = "long"
                   THEN 2 * price[SymbolOf(k)] >= t.EntryPrice + t.TakeProfitPrice
                   ELSE 2 * price[SymbolOf(k)] <= t.EntryPrice + t.TakeProfitPrice
  IN t.TakeProfitPrice > 0 /\ ~t.PartialTP50Executed /\ reached50
TrailingStopDue(k) ==
  LET t == positionPnLTracking[k]
      pnl == PnLOf(k, positions, price)
  IN /\ t.TrailingStopActivated \/ pnl >= TrailingStopActivationPct
     /\ t.MaxProfitPct - pnl >= TrailingStopDistancePct

RECURSIVE Pow(_, _)
Pow(b, e) == IF e = 0 THEN 1 ELSE b * Pow(b, e - 1)

C8_TrailingStopFlagOneShot ==
  [][\A k \in Keys :
       (/\ positionPnLTracking[k].tracked
        /\ positionPnLTracking[k].TrailingStopActivated
        /\ positionPnLTracking'[k].tracked) =>
         positionPnLTracking'[k].TrailingStopActivated]_vars

\* C9: the controller requests the full close of a position exactly when,
\* after the activation check of the cycle, the flag is true and
\* MaxProfitPct - pnlPct >= the distance.
C9_TrailingStopCloseExactlyWhenDue ==
  [][pc = "controller" =>
       \A k \in Keys :
         IsLive(k) =>
           ((\E c \in NewCalls : /\ c.by = "trailing_stop" /\ c.key = k
                                  /\ c.op = "Close" /\ c.quantity = 0)
            <=> TrailingStopDue(k))]_vars

\* the close of a long was requested at a profit of 0%, below the activation
\* threshold
C9_Witness ==
  \E i \in 1..Len(calls) :
    /\ calls[i].by = "trailing_stop"
    /\ calls[i].key = <<"BTCUSDT", "long">>
    /\ price["BTCUSDT"] = 100

\* both targets of the position of key k are reached and none was executed
BothTargetsDue(k) ==
  LET t == positionPnLTracking[k] IN
  /\ PartialTPDue(k)
  /\ ~t.PartialTP100Executed
  /\ IF SideOf(k) = "long" THEN price[SymbolOf(k)] >= t.TakeProfitPrice
     ELSE price[SymbolOf(k)] <= t.TakeProfitPrice

\* the number of calls that the step adds for key k by the named caller
Requests(k, by) ==
  Cardinality({i \in (Len(calls) + 1)..Len(calls') :
                 calls'[i].key = k /\ calls'[i].by = by})

\* C10: over the life of a position each partial-take-profit flag goes from
\* false to true at most once and never back, a target is executed only
\* while its flag is false, and when both targets are reached in one cycle
\* (and the trailing stop does not close the position) both are requested in
\* that cycle, once each.
C10_PartialTakeProfitOnce ==
  [][\A k \in Keys :
       /\ StaysLive(k) =>
            /\ positionPnLTracking[k].PartialTP50Executed =>
                 positionPnLTracking'[k].PartialTP50Executed
            /\ positionPnLTracking[k].PartialTP100Executed =>
                 positionPnLTracking'[k].PartialTP100Executed
       /\ \A c \in NewCalls :
            /\ (c.key = k /\ c.by = "partial_tp50") =>
                 ~positionPnLTracking[k].PartialTP50Executed
            /\ (c.key = k /\ c.by = "partial_tp100") =>
                 ~positionPnLTracking[k].PartialTP100Executed
       /\ Requests(k, "partial_tp50") <= 1 /\ Requests(k, "partial_tp100") <= 1
       /\ (pc = "controller" /\ IsLive(k) /\ BothTargetsDue(k) /\ ~TrailingStopDue(k)) =>
            Requests(k, "partial_tp50") = 1 /\ Requests(k, "partial_tp100") = 1]_vars

\* C11: the partial-take-profit targets come from the tracked entry and
\* take-profit prices: the controller requests the first partial close
\* exactly when its flag is false and the mark price has reached
\* entry + (takeProfit - entry)/2 for a long, entry - (entry - takeProfit)/2
\* for a short, and the second exactly when its flag is false and the mark
\* price has reached takeProfit; entry 50000 and take-profit 55000 give 52500
\* and 55000, entry 3000 and take-profit 2700 give 2850 and 2700.
C11_TargetsFromEntryAndTakeProfit ==
  [][pc = "controller" =>
       \A k \in Keys :
         (IsLive(k) /\ positionPnLTracking[k].TakeProfitPrice > 0 /\ ~TrailingStopDue(k)) =>
           LET t == positionPnLTracking[k]
               mark == price[SymbolOf(k)]
               long == SideOf(k) = "long"
               hit50 == IF long
                        THEN 2 * mark >= 2 * t.EntryPrice + (t.TakeProfitPrice - t.EntryPrice)
                        ELSE 2 * mark <= 2 * t.EntryPrice - (t.EntryPrice - t.TakeProfitPrice)
               hit100 == IF long THEN mark >= t.TakeProfitPrice
                         ELSE mark <= t.TakeProfitPrice
               asked50 == Requests(k, "partial_tp50") = 1
               asked100 == Requests(k, "partial_tp100") = 1
           IN /\ asked50 <=> (~t.PartialTP50Executed /\ hit50)
              /\ asked100 <=> (~t.PartialTP100Executed /\ hit100)
              /\ (long /\ t.EntryPrice = 50000 /\ t.TakeProfitPrice = 55000) =>
                   /\ ~t.PartialTP50Executed => (asked50 <=> mark >= 52500)
                   /\ ~t.PartialTP100Executed => (asked100 <=> mark >= 55000)
              /\ (~long /\ t.EntryPrice = 3000 /\ t.TakeProfitPrice = 2700) =>
                   /\ ~t.PartialTP50Executed => (asked50 <=> mark <= 2850)
                   /\ ~t.PartialTP100Executed => (asked100 <=> mark <= 2700)]_vars

\* the first partial close of the long entered at 50000 was requested at
\* 52500, and the second was not
C11_Witness ==
  /\ positionPnLTracking[<<"BTCUSDT", "long">>].EntryPrice = 50000
  /\ price["BTCUSDT"] = 52500
  /\ \E i \in 1..Len(calls) : calls[i].by = "partial_tp50"
  /\ \A i \in 1..Len(calls) : calls[i].by # "partial_tp100"

\* C12: a partial close requested at the second target, the first target
\* having been executed in an earlier cycle, asks for the whole quantity that
\* the position still holds, and the position is flat once it is carried out.
C12_Target100ClosesRemainder ==
  [][pc = "controller" =>
       \A k \in Keys :
         \A c \in NewCalls :
           (/\ c.key = k /\ c.by = "partial_tp100"
            /\ positionPnLTracking[k].PartialTP50Executed) =>
             /\ c.quantity = positions[k].quantity
             /\ c.ok => ~positions'[k].open]_vars

\* the priority classes of the decision sequencer, lowest first
SequencerClass(action) ==
  CASE action \in {"decrease_long", "decrease_short"} -> 1
    [] action \in {"close_long", "close_short"} -> 2
    [] action = "update_loss_profit" -> 3
    [] action \in {"increase_long", "increase_short"} -> 4
    [] action \in {"open_long", "open_short"} -> 5
    [] OTHER -> 6

\* C13: the sequenced batch is ordered by priority class, lowest first:
\* decrease, close, update_loss_profit, increase, open, hold/wait; the batch
\* [open_long BTC, close_short ETH, decrease_long SOL] comes out as
\* [decrease_long SOL, close_short ETH, open_long BTC].
C13_SequencedByPriorityClass ==
  probe.fn = "sort" =>
    /\ \A i, j \in 1..Len(probe.out) :
         i < j => SequencerClass(probe.out[i].Action) <= SequencerClass(probe.out[j].Action)
    /\ probe.in = << Decision("open_long", "BTCUSDT", 0, 0, 0, 0),
                     Decision("close_short", "ETHUSDT", 0, 0, 0, 0),
                     Decision("decrease_long", "SOLUSDT", 0, 0, 0, 0) >> =>
         probe.out = << Decision("decrease_long", "SOLUSDT", 0, 0, 0, 0),
                        Decision("close_short", "ETHUSDT", 0, 0, 0, 0),
                        Decision("open_long", "BTCUSDT", 0, 0, 0, 0) >>

\* C14: the sequenced batch is a permutation of the batch that came in, and
\* two intents of the same priority class keep their relative order.
C14_SequencerIsStable ==
  probe.fn = "sort" =>
    LET n == Len(probe.in) IN
    /\ Len(probe.out) = n
    /\ \E perm \in [1..n -> 1..n] :
         /\ \A i, j \in 1..n : i # j => perm[i] # perm[j]
         /\ \A i \in 1..n : probe.out[i] = probe.in[perm[i]]
         /\ \A i, j \in 1..n :
              (/\ i < j
               /\ SequencerClass(probe.out[i].Action) = SequencerClass(probe.out[j].Action)) =>
                perm[i] < perm[j]

Abs(x) == IF x < 0 THEN -x ELSE x

\* the rules on an opening or an increase other than the reward/risk gate
OtherRulesPass(d, accountEquity) ==
  LET major == d.Symbol \in {"BTCUSDT", "ETHUSDT"}
      ceiling == IF major THEN BTCETHLeverage ELSE AltcoinLeverage
      maxValue == IF major THEN accountEquity * 10 ELSE accountEquity * 5
      long == d.Action \in {"open_long", "increase_long"}
  IN /\ d.Leverage >= 1 /\ d.Leverage <= ceiling
     /\ d.PositionSizeUSD > 0 /\ d.PositionSizeUSD * 100 <= maxValue * 101
     /\ d.EntryPrice > 0 /\ d.StopLoss > 0 /\ d.TakeProfit > 0
     /\ d.InvalidationCondition \notin {"", " "}
     /\ IF long THEN d.StopLoss < d.EntryPrice /\ d.TakeProfit > d.EntryPrice
        ELSE d.StopLoss > d.EntryPrice /\ d.TakeProfit < d.EntryPrice

\* C15: the validator rejects every opening or increase whose reward/risk
\* ratio |target - entry| / |entry - stop| is below 2.0 and accepts, when the
\* other rules pass, every one whose ratio is at least 2.0: entry 100, stop 98,
\* target 103 is rejected, target 104 is accepted.
C15_RewardRiskGate ==
  (/\ probe.fn = "validate"
   /\ probe.in.Action \in {"open_long", "open_short", "increase_long", "increase_short"}) =>
    LET d == probe.in
        accepted == probe.out[1].err = ""
        risk == Abs(d.EntryPrice - d.StopLoss)
        reward == Abs(d.TakeProfit - d.EntryPrice)
    IN /\ (risk > 0 /\ reward < 2 * risk) => ~accepted
       /\ (OtherRulesPass(d, equity) /\ reward >= 2 * risk) => accepted
       /\ (d.EntryPrice = 100 /\ d.StopLoss = 98 /\ d.TakeProfit = 103) => ~accepted
       /\ (/\ OtherRulesPass(d, equity)
           /\ d.EntryPrice = 100 /\ d.StopLoss = 98 /\ d.TakeProfit = 104) => accepted

\* the long with entry 100, stop 98 and target 104 was accepted
C15_Witness ==
  /\ probe.fn = "validate"
  /\ probe.in.Action = "open_long"
  /\ probe.in.EntryPrice = 100 /\ probe.in.StopLoss = 98 /\ probe.in.TakeProfit = 104
  /\ probe.out[1].err = ""

C17_ValidationFailureIsolated ==
  probe.fn = "decide" =>
    \A i \in 1..Len(probe.in) :
      validateDecision(probe.in[i], equity, BTCETHLeverage, AltcoinLeverage).err = "" =>
        \E j \in 1..Len(probe.out.results) : probe.out.results[j].d = probe.in[i]

\* C18: when the execution of a decision of the sorted batch returns an
\* error, the error is recorded against that decision and every later
\* decision is still executed, in the order of the sorted batch.
C18_ExecutionFailureIsolated ==
  (probe.fn = "decide" /\ probe.out.err = "") =>
    /\ Len(probe.out.results) = Len(probe.out.sorted)
    /\ \A i \in 1..Len(probe.out.sorted) : probe.out.results[i].d = probe.out.sorted[i]

\* the first decision of a batch of two failed and the second, an opening,
\* was carried out at the venue
C18_Witness ==
  /\ probe.fn = "decide"
  /\ Len(probe.out.results) = 2
  /\ probe.out.results[1].err
  /\ ~probe.out.results[2].err
  /\ probe.out.results[2].d.Action \in {"open_long", "open_short"}
  /\ \E i \in 1..Len(calls) : calls[i].op = "Open" /\ calls[i].ok

\* C20: an opening whose entry price is more than 3% away from the market
\* price at execution fails with an error and no open order is sent to the
\* venue for it.
C20_PriceDriftAborts ==
  probe.fn = "decide" =>
    \A i \in 1..Len(probe.out.results) :
      LET d == probe.out.results[i].d IN
      (/\ d.Action \in {"open_long", "open_short"}
       /\ Abs(price[d.Symbol] - d.EntryPrice) * 100 > 3 * d.EntryPrice) =>
        /\ probe.out.results[i].err
        /\ \A c \in 1..Len(calls) : calls[c].op # "Open"

\* C19: whenever the execution of a decision returns an error, the tracking
\* entries (stop and target prices, extrema, flags) are exactly what they
\* were before that execution began.
C19_FailedDispatchLeavesTracking ==
  (probe.fn = "manage" /\ probe.out.err) => positionPnLTracking = probe.in.trk

\* the decision's stop and target bracket its entry price on the side of the
\* position with a reward of at least twice the risk
BracketsEntry(d, side) ==
  IF side = "long"
  THEN /\ d.StopLoss < d.EntryPrice
       /\ d.EntryPrice < d.TakeProfit
       /\ d.TakeProfit - d.EntryPrice >= 2 * (d.EntryPrice - d.StopLoss)
  ELSE /\ d.TakeProfit < d.EntryPrice
       /\ d.EntryPrice < d.StopLoss
       /\ d.EntryPrice - d.TakeProfit >= 2 * (d.StopLoss - d.EntryPrice)

\* C21: an increase_long or increase_short decision is carried out at the
\* venue as an order only if its stop and target bracket its entry price on the side of
\* the position and its reward is at least twice its risk.
C21_IncreaseNeedsBracket ==
  (/\ probe.fn = "manage"
   /\ probe.in.d.Action \in {"increase_long", "increase_short"}
   /\ \E c \in 1..Len(calls) : calls[c].op = "Open" /\ calls[c].ok) =>
    BracketsEntry(probe.in.d, IF probe.in.d.Action = "increase_long" THEN "long" ELSE "short")

\* C22: an increase decision for a key that has no position at the venue
\* when it is executed returns an error, and no order is sent.
C22_IncreaseNeedsPosition ==
  (/\ probe.fn = "manage"
   /\ probe.in.d.Action \in {"increase_long", "increase_short"}
   /\ ~probe.in.pos[<<probe.in.d.Symbol,
                      IF probe.in.d.Action = "increase_long" THEN "long" ELSE "short">>].open) =>
    /\ probe.out.err
    /\ calls = << >>
    /\ positions = probe.in.pos

\* an increase_short was executed while the venue listed a long position
\* only, with every call answered
C22_Witness ==
  /\ probe.fn = "manage"
  /\ probe.in.d.Action = "increase_short"
  /\ probe.in.pos[<<"BTCUSDT", "long">>].open
  /\ ~probe.in.pos[<<"BTCUSDT", "short">>].open
  /\ probe.out.err

\* the side of the position update_loss_profit finds for the symbol, "" if none
ListedSide(pos, symbol) ==
  IF pos[<<symbol, "long">>].open THEN "long"
  ELSE IF pos[<<symbol, "short">>].open THEN "short"
  ELSE ""

\* C24: update_loss_profit on a listed position returns an error and leaves
\* the tracked prices alone unless stop < mark price < target for a long,
\* target < mark price < stop for a short.
C24_UpdateNeedsConsistentPrices ==
  LET d == probe.in.d
      side == ListedSide(probe.in.pos, d.Symbol)
      mark == price[d.Symbol]
      consistent == IF side = "long"
                    THEN d.StopLoss < mark /\ mark < d.TakeProfit
                    ELSE d.TakeProfit < mark /\ mark < d.StopLoss
  IN (/\ probe.fn = "manage"
      /\ d.Action = "update_loss_profit"
      /\ side # ""
      /\ ~consistent) =>
       /\ probe.out.err
       /\ positionPnLTracking = probe.in.trk

\* the key a decrease decision acts on
DecreasedKey(d) ==
  <<d.Symbol, IF d.Action = "decrease_long" THEN "long" ELSE "short">>

\* C23: the stage of a tracked position is 1 or 2; it is 1 when the key is
\* first tracked; the execution of a decision moves it from 1 to 2 exactly
\* when the decision is a decrease that the venue carried out and that left
\* a remaining fraction between 0.4 and 0.6; nothing moves it back while the
\* key stays tracked.
C23_StageIsOneWay ==
  [][probe'.fn = "cycle" =>
       /\ \A k \in Keys :
            /\ positionPnLTracking'[k].tracked => positionPnLTracking'[k].Stage \in {1, 2}
            /\ (~positionPnLTracking[k].tracked /\ probe'.out.trk[k].tracked) =>
                 probe'.out.trk[k].Stage = 1
            /\ (positionPnLTracking[k].tracked /\ probe'.out.trk[k].tracked) =>
                 probe'.out.trk[k].Stage >= positionPnLTracking[k].Stage
       /\ \A i \in 1..Len(probe'.out.results) :
            LET r == probe'.out.results[i] IN
            \A k \in Keys :
              r.before[k].tracked =>
                /\ r.after[k].tracked
                /\ r.after[k].Stage >= r.before[k].Stage
                /\ (r.before[k].Stage = 1 /\ r.after[k].Stage = 2) <=>
                     (/\ r.before[k].Stage = 1
                      /\ r.d.Action \in {"decrease_long", "decrease_short"}
                      /\ DecreasedKey(r.d) = k
                      /\ ~r.err
                      /\ 10 * r.after[k].RemainingQuantity[1]
                           >= 4 * r.after[k].RemainingQuantity[2]
                      /\ 10 * r.after[k].RemainingQuantity[1]
                           <= 6 * r.after[k].RemainingQuantity[2])]_vars

\* a position that an earlier decrease had moved to stage 2 was decreased
\* again, to two thirds of what it held
C23_Witness ==
  /\ probe.fn = "cycle"
  /\ \E i \in 1..Len(probe.out.results) :
       LET r == probe.out.results[i] IN
       /\ r.d.Action = "decrease_long"
       /\ ~r.err
       /\ r.before[DecreasedKey(r.d)].Stage = 2
       /\ r.after[DecreasedKey(r.d)].RemainingQuantity = <<2, 3>>

\* C28: the manager never opens a position: an answer with an open_long or
\* open_short decision is executed in no part, every OpenLong/OpenShort call
\* is for a key that has a position, and a cycle that finds no position at
\* the venue neither asks the proposal source nor calls the venue.
C28_ManagerNeverOpens ==
  probe.fn = "cycle" =>
    /\ \A c \in 1..Len(calls) : calls[c].op = "Open" => calls[c].live
    /\ (\E i \in 1..Len(probe.in.answer.decisions) :
          probe.in.answer.decisions[i].Action \in {"open_long", "open_short"}) =>
         (probe.out.results = << >> /\ calls = << >>)
    /\ LiveKeys(probe.in.pos) = {} => (~aiCalled /\ calls = << >>)
    /\ LiveKeys(positions) \subseteq LiveKeys(probe.in.pos)

\* the answer held a decision the venue could have carried out next to an
\* open_long
C28_Witness ==
  /\ probe.fn = "cycle"
  /\ aiCalled
  /\ Len(probe.in.answer.decisions) = 2
  /\ probe.in.answer.decisions[1].Action = "close_long"
  /\ probe.in.answer.decisions[2].Action = "open_long"
  /\ probe.in.pos[<<"BTCUSDT", "long">>].open

\* C29: the tracking map follows the venue's list: after a cycle that read
\* the list, a key is tracked only if the list held it, so that a key that
\* closes and opens again starts from a fresh entry.
C29_TrackingFollowsSnapshot ==
  (probe.fn = "cycle" /\ probe.in.outcome = "ok") =>
    \A k \in Keys : positionPnLTracking[k].tracked => probe.in.pos[k].open

\* C25: in a cycle whose first reading of the balance or of the positions
\* failed, the proposal source is not asked and no order call is made, by the
\* dispatcher or by the profit/loss controller.
C25_FailedRefreshEndsCycle ==
  begun.build \in {"balance_err", "positions_err"} => (~aiCalled /\ calls = << >>)

\* a cycle ended on a failed GetPositions while a position was live and its
\* take-profit price reached
C25_Witness ==
  /\ begun.build = "positions_err"
  /\ pc = "done"
  /\ \E k \in LiveKeys(positions) :
       /\ positionPnLTracking[k].tracked
       /\ SideOf(k) = "long"
       /\ price[SymbolOf(k)] >= positionPnLTracking[k].TakeProfitPrice
       /\ positionPnLTracking[k].TakeProfitPrice > 0

\* C30: while a position stays open and tracked, MaxProfitPct never goes
\* down and MaxLossPct never goes up, and when buildTradingContext has
\* refreshed the map MaxLossPct <= PnL% <= MaxProfitPct for every position.
C30_ExtremesAreMonotonic ==
  [][/\ \A k \in Keys :
          (/\ StaysLive(k)
           /\ \A c \in NewCalls : ~(c.op = "Close" /\ c.key = k /\ c.ok)) =>
            /\ positionPnLTracking'[k].MaxProfitPct >= positionPnLTracking[k].MaxProfitPct
            /\ positionPnLTracking'[k].MaxLossPct <= positionPnLTracking[k].MaxLossPct
     /\ (pc = "idle" /\ pc' = "controller") =>
          \A k \in LiveKeys(positions') :
            /\ positionPnLTracking'[k].MaxLossPct <= PnLOf(k, positions', price')
            /\ PnLOf(k, positions', price') <= positionPnLTracking'[k].MaxProfitPct]_vars

\* C26: when GetFullDecision returns an error, the cycle hands its record
\* to the logger with the failure and executes no decision.
C26_FailedSolicitationEndsCycle ==
  (probe.fn = "decide" /\ probe.out.err # "") =>
    /\ ~probe.out.record.Success
    /\ probe.out.record.ErrorMessage.error = probe.out.err
    /\ probe.out.results = << >>
    /\ calls = << >>

\* the call of the proposal source failed while a position was live
C26_Witness ==
  /\ probe.fn = "decide"
  /\ probe.out.answer.kind = "api_err"
  /\ LiveKeys(positions) # {}

\* C27: when the answer cannot be parsed or fails validation, the record of
\* the cycle holds the rationale text of the answer and the decisions that
\* were extracted from it.
C27_AbortedCycleKeepsAnswer ==
  (/\ probe.fn = "decide"
   /\ probe.out.answer.kind \in {"extract_err", "decisions"}
   /\ probe.out.err # "") =>
    /\ \/ probe.out.record.CoTTrace = probe.out.answer.cot
       \/ probe.out.record.ErrorMessage.text = probe.out.answer.cot
    /\ probe.out.record.DecisionJSON = probe.out.answer.decisions

\* the last decision of the executed batch that opened key k, 0 if none
LastOpening(k) ==
  LET opened == {i \in 1..Len(probe.out.results) :
                   /\ ~probe.out.results[i].err
                   /\ probe.out.results[i].d.Action = "open_" \o SideOf(k)
                   /\ probe.out.results[i].d.Symbol = SymbolOf(k)}
  IN IF opened = {} THEN 0 ELSE CHOOSE i \in opened : \A j \in opened : j <= i

\* C31 (as amended): after a successful open_long/open_short the tracking
\* entry of the key has EntryPrice = the market price of the execution,
\* StopLossPrice and TakeProfitPrice = the decision's, and the three one-shot
\* flags false; the key has a first-seen time.
C31_OpenSeedsTracking ==
  probe.fn = "decide" =>
    \A k \in Keys :
      LastOpening(k) > 0 =>
        LET d == probe.out.results[LastOpening(k)].d
            t == positionPnLTracking[k]
        IN /\ t.tracked
           /\ t.EntryPrice = price[d.Symbol]
           /\ t.StopLossPrice = d.StopLoss
           /\ t.TakeProfitPrice = d.TakeProfit
           /\ ~t.PartialTP50Executed
           /\ ~t.PartialTP100Executed
           /\ ~t.TrailingStopActivated
           /\ k \in positionFirstSeenTime

\* an open_long was carried out at a market price away from the entry price
\* of the decision
C31_Witness ==
  /\ probe.fn = "decide"
  /\ LastOpening(<<"BTCUSDT", "long">>) > 0
  /\ positions[<<"BTCUSDT", "long">>].open
  /\ price["BTCUSDT"] # probe.out.results[LastOpening(<<"BTCUSDT", "long">>)].d.EntryPrice

\* C31 (as stated): the entry written after a successful opening also has
\* stage = 1 and remainingQuantityFraction = 1.
C31_OpenSeedsStageAndFraction ==
  probe.fn = "decide" =>
    \A k \in Keys :
      LastOpening(k) > 0 =>
        LET d == probe.out.results[LastOpening(k)].d
            t == positionPnLTracking[k]
        IN /\ t.tracked
           /\ t.EntryPrice = price[d.Symbol]
           /\ t.StopLossPrice = d.StopLoss
           /\ t.TakeProfitPrice = d.TakeProfit
           /\ ~t.PartialTP50Executed
           /\ ~t.PartialTP100Executed
           /\ ~t.TrailingStopActivated
           /\ "Stage" \in DOMAIN t
           /\ t.Stage = 1
           /\ "RemainingQuantity" \in DOMAIN t
           /\ t.RemainingQuantity = <<1, 1>>

\* the controller closed a position, or a part of one, in this cycle
ControllerActed ==
  \E i \in 1..Len(calls) :
    /\ calls[i].op = "Close" /\ calls[i].ok
    /\ calls[i].by \in {"trailing_stop", "partial_tp50", "partial_tp100"}

\* C32: when the controller has carried out a trailing-stop close or a
\* partial take-profit, the context is built again before the proposals are
\* asked for and holds the positions as they are after the action; when that
\* rebuild fails, the cycle ends and the proposal source is not called.
C32_RefreshAfterControllerAction ==
  ControllerActed =>
    /\ begun.rebuild # "none"
    /\ pc = "solicit" => (begun.rebuild = "ok" /\ begun.ctx = positions)
    /\ aiCalled => begun.rebuild = "ok"
    /\ begun.rebuild # "ok" =>
         /\ pc = "done" /\ ~aiCalled
         /\ \A i \in 1..Len(calls) : calls[i].by # "dispatch"

\* the controller took half of a long position of two lots and the proposals
\* are about to be asked for with the one lot that is left
C32_Witness ==
  /\ pc = "solicit"
  /\ \E i \in 1..Len(calls) :
       calls[i].op = "Close" /\ calls[i].ok /\ calls[i].by = "partial_tp50"
  /\ positions[<<"BTCUSDT", "long">>].quantity = 1
  /\ begun.ctx[<<"BTCUSDT", "long">>].quantity = 1

C34_DecreaseLeavesAPart ==
  (probe.fn = "manage" /\ probe.in.d.Action \in {"decrease_long", "decrease_short"}) =>
    LET d == probe.in.d
        k == DecreasedKey(d)
        before == probe.in.pos[k]
        quantity == d.PositionSizeUSD \div price[d.Symbol]
        fraction == positionPnLTracking[k].RemainingQuantity
    IN /\ (before.open /\ quantity >= before.quantity) =>
            /\ probe.out.err
            /\ calls = << >>
            /\ positions = probe.in.pos
            /\ positionPnLTracking = probe.in.trk
       /\ (~probe.out.err /\ positionPnLTracking[k].tracked) =>
            /\ fraction[2] > 0
            /\ fraction[1] > 0
            /\ fraction[1] <= fraction[2]

\* a decrease of one lot was refused for a position of one lot
C34_Witness ==
  /\ probe.fn = "manage"
  /\ probe.in.d.Action = "decrease_long"
  /\ probe.in.pos[<<"BTCUSDT", "long">>].open
  /\ probe.in.pos[<<"BTCUSDT", "long">>].quantity = 1
  /\ probe.in.d.PositionSizeUSD \div price["BTCUSDT"] = 1
  /\ probe.out.err

\* the errors the claim calls transient
TransientError(out) ==
  /\ ~out.ok
  /\ out.words \cap {"timeout", "EOF", "connection reset", "connection refused",
                     "no such host"} # {}

\* C35: a call of the proposal source makes at most 3 attempts; an attempt
\* that fails with a transient network error is followed, after a wait of 2
\* seconds times its number, by another attempt, up to the third; any other
\* error ends the call at that attempt; the call returns the answer of the
\* attempt that succeeded, or an error.
C35_RetriesTransientErrors ==
  (probe.fn = "call" /\ probe.in.client.APIKey # "") =>
    LET n == probe.out.attempts
        outs == probe.in.outs
    IN /\ n \in 1..3
       /\ probe.out.waits = [i \in 1..(n - 1) |-> 2 * i]
       /\ \A i \in 1..(n - 1) : TransientError(outs[i])
       /\ TransientError(outs[n]) => n = 3
       /\ probe.out.ok = outs[n].ok

\* C36: a decision that validateDecision accepts is executed by a case of
\* the trader's executeDecisionWithRecord: it never gets the error of the
\* default case, "unknown action".
C36_ValidatedActionIsHandled ==
  (probe.fn = "dispatch" /\ probe.out.invalid = "") => ~probe.out.unknown

\* C37: in a controller pass, a position whose trailing-stop condition
\* holds gets the trailing-stop close and no partial-take-profit order,
\* whether that close is carried out or fails.
C37_TrailingStopExcludesPartialTP ==
  [][pc = "controller" =>
       \A k \in Keys :
         (IsLive(k) /\ TrailingStopDue(k)) =>
           /\ Requests(k, "trailing_stop") = 1
           /\ Requests(k, "partial_tp50") = 0
           /\ Requests(k, "partial_tp100") = 0]_vars

\* the trailing-stop close of a position failed in a pass in which its first
\* partial-take-profit target was reached as well
C37_Witness ==
  /\ pc = "solicit"
  /\ \E k \in Keys :
       /\ IsLive(k)
       /\ TrailingStopDue(k)
       /\ PartialTPDue(k)
       /\ \E i \in 1..Len(calls) :
            calls[i].key = k /\ calls[i].by = "trailing_stop" /\ ~calls[i].ok

\* C38: when the execution of an increase or of an update_loss_profit has
\* cancelled the stop and target orders of the symbol, it asks the venue for
\* a new stop-loss order before it returns, whatever it returns.
C38_CancelledOrdersAreReplaced ==
  (/\ probe.fn = "manage"
   /\ probe.in.d.Action \in {"increase_long", "increase_short", "update_loss_profit"}) =>
    \A i \in 1..Len(calls) :
      (calls[i].op = "CancelAllOrders" /\ calls[i].ok) =>
        \E j \in (i + 1)..Len(calls) :
          calls[j].op = "SetStopLoss" /\ calls[j].key = calls[i].key

\* C39: once Stop has been called on an instance whose Run is executing, Run
\* calls no further cycle: from a position outside a cycle with the flag
\* cleared, Run never goes on to a cycle.
C39_NoCycleAfterStop ==
  [][(loop \in {"top", "select"} /\ ~isRunning) => loop' # "cycle"]_vars

====
